---- MODULE Spec2Model ----
(***************************************************************************)
(* State-machine model of the request handlers of the NPS explorer server: *)
(* findNearbyRecreation, findParks, planParkVisit, getParkAlerts,          *)
(* getParkInfo, getParkEvents, getCampgrounds, getParkWeatherForecast and  *)
(* getWeatherByCoordinates, the parkEvents resource and the geocoding      *)
(* service they use.  A handler is a sequential task that                  *)
(* suspends at every provider call (await); each action below is one such  *)
(* call together with the synchronous code that follows it up to the next  *)
(* await or to the return.                                                 *)
(*                                                                         *)
(* Representation.  A JavaScript string is a sequence of one-character     *)
(* strings.  An optional value (undefined / null / NaN) is a sequence of   *)
(* length 0 (absent) or 1 (present).  A provider call either throws or     *)
(* returns a value: [threw |-> BOOLEAN, val |-> value].                    *)
(***************************************************************************)
EXTENDS Integers, Sequences, FiniteSets, TLC

VARIABLES tool, args, pc, loc, calls, heap, outcome, suspended

vars == <<tool, args, pc, loc, calls, heap, outcome, suspended>>

----------------------------------------------------------------------------
(* Optional values and provider results                                    *)

None == <<>>
Some(x) == <<x>>
IsSome(m) == Len(m) > 0
Get(m) == m[1]

Throw == [threw |-> TRUE, val |-> <<>>]
Ok(v) == [threw |-> FALSE, val |-> v]

----------------------------------------------------------------------------
(* Strings: String.prototype.toLowerCase and String.prototype.includes     *)

LowerOf ==
    "A" :> "a" @@ "B" :> "b" @@ "C" :> "c" @@ "D" :> "d" @@ "E" :> "e" @@
    "F" :> "f" @@ "G" :> "g" @@ "H" :> "h" @@ "I" :> "i" @@ "J" :> "j" @@
    "K" :> "k" @@ "L" :> "l" @@ "M" :> "m" @@ "N" :> "n" @@ "O" :> "o" @@
    "P" :> "p" @@ "Q" :> "q" @@ "R" :> "r" @@ "S" :> "s" @@ "T" :> "t" @@
    "U" :> "u" @@ "V" :> "v" @@ "W" :> "w" @@ "X" :> "x" @@ "Y" :> "y" @@
    "Z" :> "z"

LowerChar(c) == IF c \in DOMAIN LowerOf THEN LowerOf[c] ELSE c

\* The sequence f with its elements evaluated once (a sequence built by
\* [i \in 1..n |-> e] is otherwise evaluated again at every use).
AsTuple(f) == SubSeq(f, 1, Len(f))

toLowerCase(s) == AsTuple([i \in 1..Len(s) |-> LowerChar(s[i])])

includes(s, t) ==
    \E i \in 0..(Len(s) - Len(t)) : SubSeq(s, i + 1, i + Len(t)) = t

\* JavaScript truthiness of an optional string: undefined and "" are falsy.
Truthy(m) == IsSome(m) /\ Len(Get(m)) > 0

Min(a, b) == IF a < b THEN a ELSE b
Max(a, b) == IF a > b THEN a ELSE b

\* Array.prototype.slice(start, end): a negative index counts from the end,
\* both are clamped to the array, and the result is empty when end <= start.
RelativeIndex(n, len) == IF n < 0 THEN Max(len + n, 0) ELSE Min(n, len)
slice(a, start, end) ==
    LET k == RelativeIndex(start, Len(a))
        final == RelativeIndex(end, Len(a))
    IN  IF k < final THEN SubSeq(a, k + 1, final) ELSE <<>>

\* zod's .optional().default(d)
WithDefault(m, d) == IF IsSome(m) THEN Get(m) ELSE d

\* Array.prototype.sort with comparator cmp (negative: first argument
\* first).  The sort is stable: elements that compare equal keep their
\* order.  The element at index i goes to position 1 + the number of
\* elements that sort before it.
sort(a, cmp(_, _)) ==
    LET n == Len(a)
        pos == AsTuple([i \in 1..n |->
                   1 + Cardinality({j \in 1..n : LET c == cmp(a[j], a[i])
                                                 IN  c < 0 \/ (c = 0 /\ j < i)})])
    IN  AsTuple([k \in 1..n |-> a[CHOOSE i \in 1..n : pos[i] = k]])

\* Arrays are objects: heap[ref] is the content of the array object ref.
\* A new array object takes the next reference.
NewRef(h) == Len(h) + 1
Alloc(h, a) == Append(h, a)

Call(op, a, r) == [op |-> op, args |-> a, res |-> r]

\* The calls of operation op in the log, in the order they were issued.
CallsOf(op) == SelectSeq(calls, LAMBDA c : c.op = op)

----------------------------------------------------------------------------
(* Sample data: strings                                                    *)

sMoab == <<"M","o","a","b">>
sHik == <<"H","i","k">>
sBoat == <<"b","o","a","t">>
sPineCamp == <<"P","i","n","e"," ","C","a","m","p">>
sHikingBase == <<"h","i","k","i","n","g"," ","b","a","s","e">>
sHikerHut == <<"H","I","K","E","R"," ","H","U","T">>
sBoatDock == <<"B","o","a","t"," ","D","o","c","k">>
sFishing == <<"f","i","s","h","i","n","g">>
sHiking == <<"H","i","k","i","n","g">>
sBiking == <<"B","i","k","i","n","g">>
sHorse == <<"H","o","r","s","e">>
sRim == <<"R","i","m">>
sHikeLoop == <<"H","i","k","e"," ","L","o","o","p">>
sHikerPath == <<"h","i","k","e","r"," ","p","a","t","h">>
sCreek == <<"C","r","e","e","k">>
sGoodHiking == <<"G","o","o","d"," ","H","I","K","I","N","G">>
sYose == <<"y","o","s","e">>
sGrca == <<"g","r","c","a">>
sZzzz == <<"z","z","z","z">>
sYosemite == <<"Y","o","s","e","m","i","t","e">>
sGrandCanyon == <<"G","r","a","n","d"," ","C","a","n","y","o","n">>
sMonument == <<"M","o","n","u","m","e","n","t">>
sTimeout == <<"t","i","m","e","o","u","t">>

----------------------------------------------------------------------------
(* Geocoding service (NominatimGeocodingService)                           *)

Digits == <<"0","1","2","3","4","5","6","7","8","9">>
IsDigit(c) == \E i \in 1..Len(Digits) : Digits[i] = c
DigitVal(c) == (CHOOSE i \in 1..Len(Digits) : Digits[i] = c) - 1

\* A JS number that is a finite decimal: m * 10^(-e), without trailing zeros
\* in the fraction.  NaN is None.
RECURSIVE Num(_, _)
Num(m, e) ==
    IF e > 0 /\ m % 10 = 0 THEN Num(m \div 10, e - 1) ELSE [m |-> m, e |-> e]

RECURSIVE Pow10(_)
Pow10(n) == IF n = 0 THEN 1 ELSE 10 * Pow10(n - 1)

\* First position from i on that does not hold a digit.
RECURSIVE SkipDigits(_, _)
SkipDigits(s, i) ==
    IF i <= Len(s) /\ IsDigit(s[i]) THEN SkipDigits(s, i + 1) ELSE i

\* First position from i on that does not hold white space.
RECURSIVE SkipSpace(_, _)
SkipSpace(s, i) ==
    IF i <= Len(s) /\ s[i] = " " THEN SkipSpace(s, i + 1) ELSE i

\* Value of the digits of s at positions i..j-1, given the value acc of the
\* digits read so far.
RECURSIVE ReadDigits(_, _, _, _)
ReadDigits(s, i, j, acc) ==
    IF i < j THEN ReadDigits(s, i + 1, j, 10 * acc + DigitVal(s[i])) ELSE acc

\* parseFloat(x): String(x) is trimmed on the left and its longest prefix
\* that is a decimal literal (sign, digits, fraction, exponent) is the
\* value; NaN when there is no such prefix, as for undefined.  The literal
\* Infinity is not among the inputs tried.
parseFloat(x) ==
    IF ~IsSome(x) THEN None
    ELSE LET s == Get(x)
             start == SkipSpace(s, 1)
             neg == start <= Len(s) /\ s[start] = "-"
             i0 == IF start <= Len(s) /\ s[start] \in {"-", "+"}
                   THEN start + 1 ELSE start
             i1 == SkipDigits(s, i0)
             hasDot == i1 <= Len(s) /\ s[i1] = "."
             f0 == IF hasDot THEN i1 + 1 ELSE i1
             f1 == IF hasDot THEN SkipDigits(s, f0) ELSE i1
             \* the fraction counts only if a digit stands on one side of the dot
             digits == (i1 - i0) + (f1 - f0)
             hasE == f1 + 1 <= Len(s) /\ s[f1] \in {"e", "E"}
             x0 == IF hasE /\ s[f1 + 1] \in {"-", "+"} THEN f1 + 2 ELSE f1 + 1
             x1 == IF hasE THEN SkipDigits(s, x0) ELSE x0
             useE == hasE /\ x1 > x0
             expNeg == useE /\ s[f1 + 1] = "-"
             exp == IF useE
                    THEN (IF expNeg THEN -1 ELSE 1) * ReadDigits(s, x0, x1, 0)
                    ELSE 0
             mant == ReadDigits(s, f0, f1, ReadDigits(s, i0, i1, 0))
             scale == (f1 - f0) - exp
             sign == IF neg THEN -1 ELSE 1
         IN  IF digits = 0 THEN None
             ELSE IF scale >= 0 THEN Some(Num(sign * mant, scale))
             ELSE Some(Num(sign * mant * Pow10(0 - scale), 0))

\* A candidate of the Nominatim answer; lat and lon are strings.
Candidate(lat, lon, name) == [lat |-> lat, lon |-> lon, display_name |-> name]

s38 == <<"3","8">>
sM109 == <<"-","1","0","9">>
s37_8651 == <<"3","7",".","8","6","5","1">>
sM119_5383 == <<"-","1","1","9",".","5","3","8","3">>
s90_0 == <<"9","0",".","0">>
s95 == <<"9","5">>
sM90_5 == <<"-","9","0",".","5">>
s180 == <<"1","8","0">>
sM181 == <<"-","1","8","1">>
s4e1 == <<"4","e","1">>
sSp12N == <<" ","1","2","N">>
sUnknown == <<"u","n","k","n","o","w","n">>

\* lat / lon values an answer may carry: numerals, text, "" and no value.
LatStrings ==
    { Some(s38), Some(s37_8651), Some(s90_0), Some(s95), Some(sM90_5),
      Some(s4e1), Some(sSp12N), Some(sUnknown), Some(<<>>), None }
LonStrings ==
    { Some(sM109), Some(sM119_5383), Some(s180), Some(sM181),
      Some(sUnknown), None }

\* What http.get may do for the geocoding URL: throw, answer nothing (null),
\* an empty candidate list, a list whose first element is null, or a list
\* of candidates (an element is None or Some(candidate)).
GeoResponses ==
    { Throw, Ok(None), Ok(Some(<<>>)), Ok(Some(<<None>>)) }
    \cup { Ok(Some(<<Some(Candidate(lat, lon, sMoab))>>)) :
             lat \in LatStrings, lon \in LonStrings }
    \cup { Ok(Some(<<Some(Candidate(Some(s38), Some(sM109), sMoab)),
                     Some(Candidate(Some(s95), Some(sM181), sMonument))>>)) }

\* The answers tried under findNearbyRecreation: no coordinates, a first
\* candidate in range, one out of range, one whose lat and lon do not parse.
RecGeoResponses ==
    { Throw, Ok(None), Ok(Some(<<>>)),
      Ok(Some(<<Some(Candidate(Some(s38), Some(sM109), sMoab)),
                Some(Candidate(Some(s95), Some(sM181), sMonument))>>)),
      Ok(Some(<<Some(Candidate(Some(s95), Some(sM181), sMoab))>>)),
      Ok(Some(<<Some(Candidate(Some(sUnknown), None, sMoab))>>)) }

\* Mutant of getCoordinates: no try / catch around the body.
getCoordinates_NoCatch(r) ==
    IF r.threw THEN Throw
    ELSE IF IsSome(r.val) /\ Len(Get(r.val)) > 0
         THEN LET result == Get(r.val)[1]
              IN  IF ~IsSome(result) THEN Throw
                  ELSE Ok(Some([latitude |-> parseFloat(Get(result).lat),
                                longitude |-> parseFloat(Get(result).lon),
                                displayName |-> Get(result).display_name]))
         ELSE Ok(None)

\* Mutant of getCoordinates: the last candidate instead of the first.
getCoordinates_Last(r) ==
    IF r.threw THEN Ok(None)
    ELSE IF IsSome(r.val) /\ Len(Get(r.val)) > 0
         THEN LET result == Get(r.val)[Len(Get(r.val))]
              IN  IF ~IsSome(result) THEN Ok(None)
                  ELSE Ok(Some([latitude |-> parseFloat(Get(result).lat),
                                longitude |-> parseFloat(Get(result).lon),
                                displayName |-> Get(result).display_name]))
         ELSE Ok(None)

\* getCoordinates, as the settled promise: the first candidate, or null
\* (None).  A throw of http.get, or of reading a field of a null candidate,
\* is caught and gives null.
getCoordinates(r) ==
    IF r.threw THEN Ok(None)
    ELSE IF IsSome(r.val) /\ Len(Get(r.val)) > 0
         THEN LET result == Get(r.val)[1]
              IN  IF ~IsSome(result) THEN Ok(None)
                  ELSE Ok(Some([latitude |-> parseFloat(Get(result).lat),
                                longitude |-> parseFloat(Get(result).lon),
                                displayName |-> Get(result).display_name]))
         ELSE Ok(None)

----------------------------------------------------------------------------
(* Sample data: provider records and the responses a provider may give     *)

Facility(name, desc) == [facilityName |-> name, facilityDescription |-> desc]
F1 == Facility(sPineCamp, Some(sHikingBase))
F2 == Facility(sHikerHut, None)
F3 == Facility(sBoatDock, Some(sFishing))

ParkRec(code, name) == [parkCode |-> code, name |-> name]
P1 == ParkRec(sYose, sYosemite)
P2 == ParkRec(sGrca, sGrandCanyon)
P3 == ParkRec(<<>>, sMonument)

Trail(name, desc, use) == [name |-> name, description |-> desc, trailUse |-> use]
T1 == Trail(sRim, None, Some(<<sHiking, sBiking>>))
T2 == Trail(sHikeLoop, Some(sGoodHiking), Some(<<sHorse>>))
T3 == Trail(sHikerPath, None, None)
T4 == Trail(sCreek, Some(sGoodHiking), None)
T5 == Trail(sHikeLoop, None, Some(<<>>))

ForecastDay(date, lo, hi, cond) ==
    [date |-> date, minTempF |-> lo, maxTempF |-> hi, condition |-> cond]

sSunny == <<"S","u","n","n","y">>
sSnow == <<"S","n","o","w">>
sClear == <<"C","L","E","A","R">>
sPartly == <<"P","a","r","t","l","y"," ","C","l","o","u","d","y">>
sCloudy == <<"C","l","o","u","d","y">>
sMostlyClear == <<"M","o","s","t","l","y"," ","c","l","e","a","r">>

FacilityResponses ==
    { Throw, Ok(<<>>), Ok(<<F3>>), Ok(<<F1, F2, F3>>),
      Ok(<<F1, F3, F2, F1, F3, F2, F1, F3, F2, F1>>) }

ParkResponses ==
    { Throw, Ok(<<>>), Ok(<<P1>>), Ok(<<P3, P1, P2>>),
      Ok(<<P1, P3, P2, P3, P1, P3>>) }

TrailResponses ==
    { Throw, Ok(<<>>), Ok(<<T1, T2>>), Ok(<<T3, T4, T5, T1, T3>>) }

ForecastResponses ==
    { Throw, Ok(None), Ok(Some(<<>>)),
      Ok(Some(<<ForecastDay(1, 70, 78, sSunny), ForecastDay(2, 40, 45, sSnow)>>)) }

----------------------------------------------------------------------------
(* findNearbyRecreation                                                    *)

MinRadius == 25
NearbyParkCount == 5
MaxShown == 8

DefaultDistance == 50
Distances == {None} \cup {Some(d) : d \in {-10, 0, 10, 24, 25, 26}}
ActivityTypes == {None, Some(<<>>), Some(sHik), Some(sBoat)}
IncludeTrails == {None, Some(FALSE)}

\* The parameters as the handler receives them, defaults applied.
RecArgs ==
    { [location |-> sMoab,
       distance |-> WithDefault(d, DefaultDistance),
       activityType |-> a,
       includeTrails |-> WithDefault(t, TRUE)] :
      d \in Distances, a \in ActivityTypes, t \in IncludeTrails }

RecLoc ==
    [coordinates |-> None, facilities |-> <<>>, nearbyParks |-> <<>>,
     trails |-> <<>>, i |-> 0, filteredFacilities |-> <<>>,
     filteredTrails |-> <<>>]

\* Mutant of filteredFacilities: only the facility name is searched.
filteredFacilities_NameOnly(facilities, activityType) ==
    IF Truthy(activityType)
    THEN SelectSeq(facilities,
                   LAMBDA f : includes(toLowerCase(f.facilityName),
                                       toLowerCase(Get(activityType))))
    ELSE facilities

\* Mutant of RecResponse: the remainder lines report the whole count.
RecResponse_WholeCount(l, forecast) ==
    LET ff == l.filteredFacilities
        ft == l.filteredTrails
        foundSomething == Len(ff) > 0 \/ Len(l.nearbyParks) > 0 \/ Len(ft) > 0
    IN  [kind |-> "ok",
         weather |-> IF IsSome(forecast) /\ Len(Get(forecast)) > 0
                     THEN Some(Get(forecast)[1]) ELSE None,
         foundSomething |-> foundSomething,
         parks |-> IF foundSomething THEN l.nearbyParks ELSE <<>>,
         facilities |-> IF foundSomething THEN slice(ff, 0, MaxShown) ELSE <<>>,
         moreFacilities |-> IF foundSomething /\ Len(ff) > MaxShown
                            THEN Some(Len(ff)) ELSE None,
         trails |-> IF foundSomething THEN slice(ft, 0, MaxShown) ELSE <<>>,
         moreTrails |-> IF foundSomething /\ Len(ft) > MaxShown
                        THEN Some(Len(ft)) ELSE None]

\* Mutant of adjustedDistance: the radius floor is not applied.
adjustedDistance_NoFloor(distance) == distance

\* Ensure minimum search radius for small towns.
adjustedDistance(distance) == IF distance < MinRadius THEN MinRadius ELSE distance

filteredFacilities(facilities, activityType) ==
    IF Truthy(activityType)
    THEN LET term == toLowerCase(Get(activityType))
             keep(f) ==
                 LET nameLower == toLowerCase(f.facilityName)
                     descLower == IF Truthy(f.facilityDescription)
                                  THEN toLowerCase(Get(f.facilityDescription))
                                  ELSE <<>>
                 IN  includes(nameLower, term) \/ includes(descLower, term)
         IN  SelectSeq(facilities, keep)
    ELSE facilities

\* Mutant of filteredTrails: a trail whose permitted-use list has no match
\* is still matched on its name and description.
filteredTrails_NameToo(trails, activityType) ==
    IF Truthy(activityType) /\ Len(trails) > 0
    THEN LET term == toLowerCase(Get(activityType))
             keep(trail) ==
                 \/ IsSome(trail.trailUse)
                    /\ \E k \in 1..Len(Get(trail.trailUse)) :
                          includes(toLowerCase(Get(trail.trailUse)[k]), term)
                 \/ includes(toLowerCase(trail.name), term)
                 \/ Truthy(trail.description)
                    /\ includes(toLowerCase(Get(trail.description)), term)
         IN  SelectSeq(trails, keep)
    ELSE trails

filteredTrails(trails, activityType) ==
    IF Truthy(activityType) /\ Len(trails) > 0
    THEN LET term == toLowerCase(Get(activityType))
             keep(trail) ==
                 IF IsSome(trail.trailUse)
                 THEN \E k \in 1..Len(Get(trail.trailUse)) :
                          includes(toLowerCase(Get(trail.trailUse)[k]), term)
                 ELSE LET nameLower == toLowerCase(trail.name)
                          descLower == IF Truthy(trail.description)
                                       THEN toLowerCase(Get(trail.description))
                                       ELSE <<>>
                      IN  includes(nameLower, term) \/ includes(descLower, term)
         IN  SelectSeq(trails, keep)
    ELSE trails

\* Mutant of NextTrailIdx: parks without a park code are not skipped.
NextTrailIdx_NoSkip(parks, i) == i

\* Index of the first park at or after i that has a park code, or
\* Len(parks) + 1 when the loop over the parks is over.
RECURSIVE NextTrailIdx(_, _)
NextTrailIdx(parks, i) ==
    IF i > Len(parks) THEN i
    ELSE IF Len(parks[i].parkCode) > 0 THEN i
    ELSE NextTrailIdx(parks, i + 1)

NotFoundOutcome == [kind |-> "notFound"]
ErrorOutcome == [kind |-> "error"]
Pending == [kind |-> "pending"]

\* The synchronous code between the last trail query and the weather query.
RecFilter(l) ==
    [l EXCEPT !.filteredFacilities = filteredFacilities(l.facilities, args.activityType),
              !.filteredTrails = filteredTrails(l.trails, args.activityType)]

\* The response text, by its sections.
RecResponse(l, forecast) ==
    LET ff == l.filteredFacilities
        ft == l.filteredTrails
        foundSomething == Len(ff) > 0 \/ Len(l.nearbyParks) > 0 \/ Len(ft) > 0
    IN  [kind |-> "ok",
         weather |-> IF IsSome(forecast) /\ Len(Get(forecast)) > 0
                     THEN Some(Get(forecast)[1]) ELSE None,
         foundSomething |-> foundSomething,
         parks |-> IF foundSomething THEN l.nearbyParks ELSE <<>>,
         facilities |-> IF foundSomething THEN slice(ff, 0, MaxShown) ELSE <<>>,
         moreFacilities |-> IF foundSomething /\ Len(ff) > MaxShown
                            THEN Some(Len(ff) - MaxShown) ELSE None,
         trails |-> IF foundSomething THEN slice(ft, 0, MaxShown) ELSE <<>>,
         moreTrails |-> IF foundSomething /\ Len(ft) > MaxShown
                        THEN Some(Len(ft) - MaxShown) ELSE None]

\* Mutant of RecGeocode: the null check on the coordinates is missing.
RecGeocode_NoNullCheck ==
    /\ tool = "findNearbyRecreation" /\ pc = "geocode"
    /\ \E r \in RecGeoResponses :
         /\ calls' = Append(calls, Call("getCoordinates", <<args.location>>, r))
         /\ loc' = [loc EXCEPT !.coordinates = getCoordinates(r).val]
         /\ pc' = "facilities"
    /\ UNCHANGED <<tool, args, suspended, heap, outcome>>

RecGeocode ==
    /\ tool = "findNearbyRecreation" /\ pc = "geocode"
    /\ \E r \in RecGeoResponses :
         LET settled == getCoordinates(r)
         IN  /\ calls' = Append(calls, Call("getCoordinates", <<args.location>>, r))
             /\ IF settled.threw
                THEN /\ outcome' = ErrorOutcome
                     /\ pc' = "done"
                     /\ loc' = loc
                ELSE IF ~IsSome(settled.val)
                THEN /\ outcome' = NotFoundOutcome
                     /\ pc' = "done"
                     /\ loc' = loc
                ELSE /\ loc' = [loc EXCEPT !.coordinates = settled.val]
                     /\ pc' = "facilities"
                     /\ outcome' = outcome
    /\ UNCHANGED <<tool, args, suspended, heap>>

\* Mutant of RecFacilities: the facilities are filtered as soon as they
\* arrive, before the parks and trail queries.
RecFacilities_FilterEarly ==
    /\ tool = "findNearbyRecreation" /\ pc = "facilities"
    /\ \E r \in FacilityResponses :
         LET c == Get(loc.coordinates)
         IN  /\ calls' = Append(calls,
                     Call("getFacilitiesByLocation",
                          <<c.latitude, c.longitude, adjustedDistance(args.distance)>>, r))
             /\ IF r.threw
                THEN /\ outcome' = ErrorOutcome
                     /\ pc' = "done"
                     /\ loc' = loc
                ELSE /\ loc' = RecFilter([loc EXCEPT !.facilities = r.val])
                     /\ pc' = "parks"
                     /\ outcome' = outcome
    /\ UNCHANGED <<tool, args, suspended, heap>>

RecFacilities ==
    /\ tool = "findNearbyRecreation" /\ pc = "facilities"
    /\ \E r \in FacilityResponses :
         LET c == Get(loc.coordinates)
         IN  /\ calls' = Append(calls,
                     Call("getFacilitiesByLocation",
                          <<c.latitude, c.longitude, adjustedDistance(args.distance)>>, r))
             /\ IF r.threw
                THEN /\ outcome' = ErrorOutcome
                     /\ pc' = "done"
                     /\ loc' = loc
                ELSE /\ loc' = [loc EXCEPT !.facilities = r.val]
                     /\ pc' = "parks"
                     /\ outcome' = outcome
    /\ UNCHANGED <<tool, args, suspended, heap>>

RecParks ==
    /\ tool = "findNearbyRecreation" /\ pc = "parks"
    /\ \E r \in ParkResponses :
         LET c == Get(loc.coordinates)
             first == NextTrailIdx(r.val, 1)
             l1 == [loc EXCEPT !.nearbyParks = r.val]
         IN  /\ calls' = Append(calls,
                     Call("searchParksByLocation",
                          <<c.latitude, c.longitude, NearbyParkCount>>, r))
             /\ IF r.threw
                THEN /\ outcome' = ErrorOutcome
                     /\ pc' = "done"
                     /\ loc' = loc
                ELSE /\ outcome' = outcome
                     /\ IF args.includeTrails /\ first <= Len(r.val)
                        THEN /\ loc' = [l1 EXCEPT !.i = first]
                             /\ pc' = "trails"
                        ELSE /\ loc' = RecFilter(l1)
                             /\ pc' = "weather"
    /\ UNCHANGED <<tool, args, suspended, heap>>

\* Mutant of RecTrails: a trail query that throws is tried a second time.
RecTrails_RetryOnce ==
    /\ tool = "findNearbyRecreation" /\ pc = "trails"
    /\ \E r \in TrailResponses :
         LET park == loc.nearbyParks[loc.i]
             next == NextTrailIdx(loc.nearbyParks, loc.i + 1)
             l1 == [loc EXCEPT !.trails = loc.trails \o r.val]
             retried == calls[Len(calls)].op = "getTrailsByPark"
                        /\ calls[Len(calls)].res.threw
         IN  /\ calls' = Append(calls, Call("getTrailsByPark", <<park.parkCode>>, r))
             /\ IF r.threw /\ ~retried
                THEN /\ outcome' = outcome
                     /\ pc' = "trails"
                     /\ loc' = loc
                ELSE IF r.threw
                THEN /\ outcome' = ErrorOutcome
                     /\ pc' = "done"
                     /\ loc' = loc
                ELSE /\ outcome' = outcome
                     /\ IF next <= Len(loc.nearbyParks)
                        THEN /\ loc' = [l1 EXCEPT !.i = next]
                             /\ pc' = "trails"
                        ELSE /\ loc' = RecFilter(l1)
                             /\ pc' = "weather"
    /\ UNCHANGED <<tool, args, suspended, heap>>

RecTrails ==
    /\ tool = "findNearbyRecreation" /\ pc = "trails"
    /\ \E r \in TrailResponses :
         LET park == loc.nearbyParks[loc.i]
             next == NextTrailIdx(loc.nearbyParks, loc.i + 1)
             l1 == [loc EXCEPT !.trails = loc.trails \o r.val]
         IN  /\ calls' = Append(calls, Call("getTrailsByPark", <<park.parkCode>>, r))
             /\ IF r.threw
                THEN /\ outcome' = ErrorOutcome
                     /\ pc' = "done"
                     /\ loc' = loc
                ELSE /\ outcome' = outcome
                     /\ IF next <= Len(loc.nearbyParks)
                        THEN /\ loc' = [l1 EXCEPT !.i = next]
                             /\ pc' = "trails"
                        ELSE /\ loc' = RecFilter(l1)
                             /\ pc' = "weather"
    /\ UNCHANGED <<tool, args, suspended, heap>>

\* Mutant of RecWeather: a forecast without days is treated as a failure.
RecWeather_EmptyForecastFails ==
    /\ tool = "findNearbyRecreation" /\ pc = "weather"
    /\ \E r \in ForecastResponses :
         /\ calls' = Append(calls, Call("get7DayForecastByLocation", <<args.location>>, r))
         /\ pc' = "done"
         /\ outcome' = IF r.threw \/ (IsSome(r.val) /\ Len(Get(r.val)) = 0)
                       THEN ErrorOutcome ELSE RecResponse(loc, r.val)
    /\ UNCHANGED <<tool, args, suspended, loc, heap>>

RecWeather ==
    /\ tool = "findNearbyRecreation" /\ pc = "weather"
    /\ \E r \in ForecastResponses :
         /\ calls' = Append(calls, Call("get7DayForecastByLocation", <<args.location>>, r))
         /\ pc' = "done"
         /\ outcome' = IF r.threw THEN ErrorOutcome ELSE RecResponse(loc, r.val)
    /\ UNCHANGED <<tool, args, suspended, loc, heap>>

InitRecreation ==
    /\ tool = "findNearbyRecreation"
    /\ args \in RecArgs
    /\ pc = "geocode"
    /\ loc = RecLoc
    /\ calls = <<>>
    /\ heap = <<>>
    /\ suspended = <<>>
    /\ outcome = Pending

NextRecreation ==
    RecGeocode \/ RecFacilities \/ RecParks \/ RecTrails \/ RecWeather

SpecRecreation == InitRecreation /\ [][NextRecreation]_vars

\* Every awaited provider promise settles, so a suspended handler is resumed.
SpecRecreationFair == SpecRecreation /\ WF_vars(NextRecreation)

RecDone == tool = "findNearbyRecreation" /\ pc = "done"

\* C1: if geocoding succeeds and the facilities query throws, the request
\* still issues the parks query and returns a result, not an error, with an
\* empty facilities collection and with the parks the parks query returned.
C1_PartialFailure ==
    (RecDone /\ \E k \in 1..Len(calls) :
                    calls[k].op = "getFacilitiesByLocation" /\ calls[k].res.threw)
    => /\ outcome.kind = "ok"
       /\ outcome.facilities = <<>>
       /\ Len(CallsOf("searchParksByLocation")) = 1
       /\ outcome.parks = CallsOf("searchParksByLocation")[1].res.val

\* C2: the radius passed to the facilities-by-location query is
\* max(distance, 25): never below 25, and the requested one from 25 on.
C2_RadiusFloor ==
    \A k \in 1..Len(calls) :
        calls[k].op = "getFacilitiesByLocation"
        => LET used == calls[k].args[3]
           IN  /\ used >= 25
               /\ (args.distance >= 25 => used = args.distance)
               /\ (args.distance < 25 => used = 25)

C2_Witness ==
    /\ args.distance = 10
    /\ \E k \in 1..Len(calls) :
           calls[k].op = "getFacilitiesByLocation" /\ calls[k].args[3] = 25

\* C3: when geocoding yields no coordinates the request is over with the
\* could-not-identify outcome, and getCoordinates is the only call issued.
C3_FailFast ==
    (tool = "findNearbyRecreation" /\ Len(calls) > 0 /\ ~IsSome(loc.coordinates))
    => /\ pc = "done"
       /\ outcome.kind = "notFound"
       /\ \A k \in 1..Len(calls) : calls[k].op = "getCoordinates"

C3_Witness ==
    /\ RecDone
    /\ outcome.kind = "notFound"
    /\ Len(calls) = 1
    /\ calls[1].res = Ok(Some(<<>>))

----------------------------------------------------------------------------
(* findParks                                                               *)

DefaultLimit == 10
DefaultStart == 0
MaxParks == 12

ParkItem(i) == [id |-> i, parkCode |-> sYose, name |-> sYosemite]
ParkList(n) == [i \in 1..n |-> ParkItem(i)]

sCA == <<"C","A">>
Queries == {None, Some(<<>>), Some(sYosemite)}
StateCodes == {None, Some(sCA)}
Activities == {None, Some(<<>>), Some(sHiking)}
Limits == {None} \cup {Some(n) : n \in {-1, 0, 1, 2, 5}}
Starts == {None} \cup {Some(n) : n \in {-2, 1, 2, 10, MaxParks, MaxParks + 1}}

FindArgs ==
    { [q |-> q, stateCode |-> sc, activity |-> a,
       limit |-> WithDefault(l, DefaultLimit),
       start |-> WithDefault(st, DefaultStart)] :
      q \in Queries, sc \in StateCodes, a \in Activities,
      l \in Limits, st \in Starts }

\* searchParks and getParks paginate natively: whatever list they answer.
PagedResponses == {Throw, Ok(None), Ok(Some(<<>>)), Ok(Some(ParkList(2)))}
ActivityResponses == {Throw, Ok(None)} \cup {Ok(Some(ParkList(n))) : n \in 0..MaxParks}

\* Mutant of findParksQuery: the activity criterion takes priority.
findParksQuery_ActivityFirst(q, stateCode, activity) ==
    IF Truthy(activity) THEN "getParksByActivity"
    ELSE IF IsSome(q) \/ IsSome(stateCode) THEN "searchParks"
    ELSE "getParks"

\* Select the appropriate service method based on parameters provided.
findParksQuery(q, stateCode, activity) ==
    IF IsSome(q) \/ IsSome(stateCode) THEN "searchParks"
    ELSE IF Truthy(activity) THEN "getParksByActivity"
    ELSE "getParks"

\* Apply manual pagination.
paginate(parks, start, limit) ==
    slice(parks, start, Min(Len(parks), start + limit))

FindResponses(op) ==
    IF op = "getParksByActivity" THEN ActivityResponses ELSE PagedResponses

FindCallArgs(op) ==
    IF op = "searchParks" THEN <<args.q, args.stateCode, args.limit, args.start>>
    ELSE IF op = "getParksByActivity" THEN <<args.activity>>
    ELSE <<args.limit, args.start>>

FindResponse(parks) ==
    IF Len(parks) = 0
    THEN [kind |-> "empty", parks |-> <<>>]
    ELSE [kind |-> "ok", parks |-> parks,
          startingAt |-> IF args.start > 0 THEN Some(args.start + 1) ELSE None,
          nextStart |-> IF Len(parks) >= args.limit
                        THEN Some(args.start + args.limit) ELSE None]

\* Mutant of FindOutcome: a failed query is treated as a query without
\* results.
FindOutcome_Swallow(op, r) ==
    IF r.threw THEN FindResponse(<<>>)
    ELSE IF op = "getParksByActivity"
    THEN IF IsSome(r.val)
         THEN FindResponse(paginate(Get(r.val), args.start, args.limit))
         ELSE ErrorOutcome
    ELSE IF IsSome(r.val) THEN FindResponse(Get(r.val))
    ELSE FindResponse(<<>>)

\* What the handler returns for the answer r of the query op.
FindOutcome(op, r) ==
    IF r.threw THEN ErrorOutcome               \* catch
    ELSE IF op = "getParksByActivity"
    THEN IF IsSome(r.val)
         THEN FindResponse(paginate(Get(r.val), args.start, args.limit))
         ELSE ErrorOutcome                     \* parks.slice on null: TypeError
    ELSE IF IsSome(r.val) THEN FindResponse(Get(r.val))
    ELSE FindResponse(<<>>)                    \* !parks

FindQuery ==
    /\ tool = "findParks" /\ pc = "query"
    /\ LET op == findParksQuery(args.q, args.stateCode, args.activity)
       IN  \E r \in FindResponses(op) :
             /\ calls' = Append(calls, Call(op, FindCallArgs(op), r))
             /\ pc' = "done"
             /\ outcome' = FindOutcome(op, r)
    /\ UNCHANGED <<tool, args, suspended, loc, heap>>

InitFindParks ==
    /\ tool = "findParks"
    /\ args \in FindArgs
    /\ pc = "query"
    /\ loc = <<>>
    /\ calls = <<>>
    /\ heap = <<>>
    /\ suspended = <<>>
    /\ outcome = Pending

NextFindParks == FindQuery

SpecFindParks == InitFindParks /\ [][NextFindParks]_vars

FindDone == tool = "findParks" /\ pc = "done"

\* C4 as stated: exactly one parks query per request; searchParks(q,
\* stateCode, limit, start) if q or stateCode is present, else
\* getParksByActivity(activity) if activity is present, else
\* getParks(limit, start).
C4_DispatchWhenPresent ==
    FindDone
    => /\ Len(calls) = 1
       /\ IF IsSome(args.q) \/ IsSome(args.stateCode)
          THEN /\ calls[1].op = "searchParks"
               /\ calls[1].args = <<args.q, args.stateCode, args.limit, args.start>>
          ELSE IF IsSome(args.activity)
          THEN /\ calls[1].op = "getParksByActivity"
               /\ calls[1].args = <<args.activity>>
          ELSE /\ calls[1].op = "getParks"
               /\ calls[1].args = <<args.limit, args.start>>

\* C4 amended: exactly one parks query per request; searchParks(q,
\* stateCode, limit, start) if q or stateCode is present (activity ignored),
\* else getParksByActivity(activity) if activity is present and not the
\* empty string, else (no activity, or an empty one) getParks(limit, start).
C4_DispatchWhenNonEmpty ==
    FindDone
    => /\ Len(calls) = 1
       /\ IF IsSome(args.q) \/ IsSome(args.stateCode)
          THEN /\ calls[1].op = "searchParks"
               /\ calls[1].args = <<args.q, args.stateCode, args.limit, args.start>>
          ELSE IF IsSome(args.activity) /\ Get(args.activity) /= <<>>
          THEN /\ calls[1].op = "getParksByActivity"
               /\ calls[1].args = <<args.activity>>
          ELSE /\ calls[1].op = "getParks"
               /\ calls[1].args = <<args.limit, args.start>>

\* q and activity both supplied: searchParks is called and activity ignored.
C4_Witness ==
    /\ FindDone
    /\ args.q = Some(sYosemite) /\ args.activity = Some(sHiking)
    /\ calls[1].op = "searchParks"

\* C5: on the activity path the returned parks are the elements of the
\* provider's result at the indices i with start <= i < start + limit, in
\* provider order, at most limit of them, and no error is raised (an empty
\* result when start is at or past the end).
C5_ActivitySlice ==
    (FindDone /\ calls[1].op = "getParksByActivity"
       /\ ~calls[1].res.threw /\ IsSome(calls[1].res.val))
    => LET result == Get(calls[1].res.val)
           lo == Max(args.start, 0)
           hi == Min(args.start + args.limit, Len(result))
           n == Max(hi - lo, 0)
       IN  /\ outcome.kind /= "error"
           /\ outcome.parks = [j \in 1..n |-> result[lo + j]]
           /\ Len(outcome.parks) <= Max(args.limit, 0)

----------------------------------------------------------------------------
(* planParkVisit                                                           *)

TopDays == 3
MaxDays == 3

DetailedDay(date, lo, hi, cond, rain) ==
    [date |-> date, minTempF |-> lo, maxTempF |-> hi, condition |-> cond,
     chanceOfRain |-> rain]

\* day.chanceOfRain < n: false when the value is missing (undefined < n).
RainBelow(day, n) == IsSome(day.chanceOfRain) /\ Get(day.chanceOfRain) < n

\* Mutant of tempScore: the comfortable band is scored on the minimum
\* temperature instead of the average.
tempScore_OnMin(day) ==
    IF day.minTempF >= 65 /\ day.minTempF <= 80 THEN 3
    ELSE IF day.minTempF >= 50 /\ day.minTempF <= 85 THEN 2
    ELSE 1

\* Prefer temperatures between 65-80 F.  avgTemp = (max + min) / 2 is
\* compared through its double, max + min, to stay within the integers.
tempScore(day) ==
    LET avgTemp2 == day.maxTempF + day.minTempF
    IN  IF avgTemp2 >= 2 * 65 /\ avgTemp2 <= 2 * 80 THEN 3
        ELSE IF avgTemp2 >= 2 * 50 /\ avgTemp2 <= 2 * 85 THEN 2
        ELSE 1

\* Mutant of rainScore: a dry day earns 4.
rainScore_Four(day) ==
    IF RainBelow(day, 20) THEN 4
    ELSE IF RainBelow(day, 40) THEN 2
    ELSE IF RainBelow(day, 60) THEN 1
    ELSE 0

\* Prefer low chance of rain.
rainScore(day) ==
    IF RainBelow(day, 20) THEN 3
    ELSE IF RainBelow(day, 40) THEN 2
    ELSE IF RainBelow(day, 60) THEN 1
    ELSE 0

sSunnyLower == <<"s","u","n","n","y">>
sClearLower == <<"c","l","e","a","r">>
sPartlyLower == <<"p","a","r","t","l","y"," ","c","l","o","u","d","y">>
goodConditions == <<sSunnyLower, sClearLower, sPartlyLower>>

\* Prefer good conditions.
conditionScore(day) ==
    IF \E k \in 1..Len(goodConditions) :
           includes(toLowerCase(day.condition), goodConditions[k])
    THEN 2 ELSE 0

ScoredDay(day) ==
    [date |-> day.date,
     score |-> tempScore(day) + rainScore(day) + conditionScore(day),
     conditions |-> <<day.minTempF, day.maxTempF, day.condition, day.chanceOfRain>>]

\* detailedForecast.forEach(day => goodWeatherDays.push(...))
scoreDays(detailedForecast) ==
    IF IsSome(detailedForecast) /\ Len(Get(detailedForecast)) > 0
    THEN AsTuple([i \in 1..Len(Get(detailedForecast)) |->
                      ScoredDay(Get(detailedForecast)[i])])
    ELSE <<>>

\* (a, b) => b.score - a.score
byScore(a, b) == b.score - a.score

\* Mutant of sortByScore: days of equal score come out in reverse order.
sortByScore_Unstable(days) ==
    sort(days, LAMBDA a, b : IF a.score = b.score THEN b.date - a.date
                             ELSE byScore(a, b))

\* goodWeatherDays.sort((a, b) => b.score - a.score)
sortByScore(days) == sort(days, byScore)

Alert(title, category, date) ==
    [title |-> title, category |-> category, lastIndexedDate |-> date]

sRoadClosed == <<"R","o","a","d"," ","C","L","O","S","E","D">>
sInformation == <<"I","n","f","o","r","m","a","t","i","o","n">>
sWildlifeAdvisory == <<"W","i","l","d","l","i","f","e"," ","A","d","v","i","s","o","r","y">>
sSafety == <<"S","a","f","e","t","y">>
sTrailWork == <<"t","r","a","i","l"," ","w","o","r","k">>
sParkClosure == <<"P","a","r","k"," ","C","l","o","s","u","r","e">>
sBridgeClosure == <<"B","r","i","d","g","e"," ","c","l","o","s","u","r","e">>
sDanger == <<"D","a","n","g","e","r">>
sClosure == <<"c","l","o","s","u","r","e">>
sClosed == <<"c","l","o","s","e","d">>

A1 == Alert(sRoadClosed, sInformation, 3)
A2 == Alert(sWildlifeAdvisory, sSafety, 5)
A3 == Alert(sTrailWork, sParkClosure, 1)
A4 == Alert(sBridgeClosure, sDanger, 5)
A5 == Alert(sInformation, sRoadClosed, 2)

AlertResponses ==
    { Throw, Ok(<<>>), Ok(<<A5, A2>>), Ok(<<A3, A2, A4, A1>>) }

ParkByIdResponses == { Throw, Ok(None), Ok(Some(P1)), Ok(Some(P2)), Ok(Some(P3)) }

\* Mutant of closureAlerts: the category is not looked at.
closureAlerts_TitleOnly(alerts) ==
    SelectSeq(alerts, LAMBDA a :
        \/ includes(toLowerCase(a.title), sClosure)
        \/ includes(toLowerCase(a.title), sClosed))

\* Check for alerts that might affect visit.
closureAlerts(alerts) ==
    SelectSeq(alerts, LAMBDA a :
        \/ includes(toLowerCase(a.title), sClosure)
        \/ includes(toLowerCase(a.title), sClosed)
        \/ includes(toLowerCase(a.category), sClosure))

\* Temperatures on both sides of every threshold of the average, rain
\* chances on both sides of every threshold and missing, and conditions.
Temps == { <<40, 45>>, <<49, 50>>, <<50, 50>>, <<60, 69>>, <<65, 65>>,
           <<70, 78>>, <<80, 80>>, <<80, 81>>, <<85, 85>>, <<85, 86>> }
RainChances == {None} \cup {Some(n) : n \in {0, 10, 19, 20, 39, 40, 59, 60, 70}}
Conditions == {sSunny, sSnow, sClear, sPartly, sCloudy, sMostlyClear}

OneDayForecasts ==
    { <<DetailedDay(1, t[1], t[2], c, r)>> :
      t \in Temps, c \in Conditions, r \in RainChances }

\* Days whose scores are 8, 5, 5 and 1, to rank.
RankDay(k, date) ==
    CASE k = 1 -> DetailedDay(date, 70, 78, sSunny, Some(10))
      [] k = 2 -> DetailedDay(date, 60, 69, sCloudy, Some(0))
      [] k = 3 -> DetailedDay(date, 70, 78, sClear, None)
      [] OTHER -> DetailedDay(date, 40, 45, sSnow, Some(70))

RankedForecasts ==
    UNION { { [i \in 1..n |-> RankDay(f[i], i)] : f \in [1..n -> 1..4] } : n \in 0..MaxDays }

DetailedResponses ==
    {Throw, Ok(None)} \cup {Ok(Some(f)) : f \in OneDayForecasts \cup RankedForecasts}

TripDates == { <<None, None>>, <<Some(2), Some(3)>>, <<Some(8), Some(9)>> }

PlanArgs ==
    { [parkCode |-> sYose, startDate |-> t[1], endDate |-> t[2]] : t \in TripDates }

PlanLoc ==
    [park |-> None, alerts |-> 0, forecast |-> None, detailedForecast |-> None,
     goodWeatherDays |-> 0]

\* Park-specific tips.
PlanTips(park) ==
    IF park.parkCode = sYose THEN "yose"
    ELSE IF park.parkCode = sGrca THEN "grca"
    ELSE "generic"

\* If a specific trip date range was provided.
PlanTrip(forecast) ==
    IF IsSome(args.startDate) /\ IsSome(args.endDate)
    THEN IF IsSome(forecast) /\ Len(Get(forecast)) > 0
         THEN LET days == Get(forecast)
                  tripStartDate == Get(args.startDate)
                  tripEndDate == Get(args.endDate)
                  overlap == /\ tripStartDate <= days[Len(days)].date
                             /\ tripEndDate >= days[1].date
                  tripForecast == SelectSeq(days, LAMBDA day :
                      day.date >= tripStartDate /\ day.date <= tripEndDate)
              IN  [section |-> TRUE, haveData |-> overlap, days |-> IF overlap THEN tripForecast ELSE <<>>]
         ELSE [section |-> TRUE, haveData |-> FALSE, days |-> <<>>]
    ELSE [section |-> FALSE, haveData |-> FALSE, days |-> <<>>]

PlanGetPark ==
    /\ tool = "planParkVisit" /\ pc = "getParkById"
    /\ \E r \in ParkByIdResponses :
         /\ calls' = Append(calls, Call("getParkById", <<args.parkCode>>, r))
         /\ IF r.threw
            THEN outcome' = ErrorOutcome /\ pc' = "done" /\ loc' = loc
            ELSE IF ~IsSome(r.val)
            THEN outcome' = NotFoundOutcome /\ pc' = "done" /\ loc' = loc
            ELSE /\ loc' = [loc EXCEPT !.park = r.val]
                 /\ pc' = "getAlertsByPark"
                 /\ outcome' = outcome
    /\ UNCHANGED <<tool, args, suspended, heap>>

PlanGetAlerts ==
    /\ tool = "planParkVisit" /\ pc = "getAlertsByPark"
    /\ \E r \in AlertResponses :
         /\ calls' = Append(calls, Call("getAlertsByPark", <<args.parkCode>>, r))
         /\ IF r.threw
            THEN outcome' = ErrorOutcome /\ pc' = "done" /\ UNCHANGED <<loc, heap>>
            ELSE /\ heap' = Alloc(heap, r.val)
                 /\ loc' = [loc EXCEPT !.alerts = NewRef(heap)]
                 /\ pc' = "get7DayForecastByLocation"
                 /\ outcome' = outcome
    /\ UNCHANGED <<tool, args, suspended>>

PlanGetForecast ==
    /\ tool = "planParkVisit" /\ pc = "get7DayForecastByLocation"
    /\ \E r \in ForecastResponses :
         /\ calls' = Append(calls,
                 Call("get7DayForecastByLocation", <<Get(loc.park).name>>, r))
         /\ IF r.threw
            THEN outcome' = ErrorOutcome /\ pc' = "done" /\ UNCHANGED <<loc, heap>>
            ELSE /\ pc' = "getDetailedForecast"
                 /\ outcome' = outcome
                 /\ IF IsSome(r.val)
                    THEN /\ heap' = Alloc(heap, Get(r.val))
                         /\ loc' = [loc EXCEPT !.forecast = Some(NewRef(heap))]
                    ELSE UNCHANGED <<loc, heap>>
    /\ UNCHANGED <<tool, args, suspended>>

\* The last await and the synchronous rest of the handler: score, rank,
\* filter the alerts, and format.
PlanGetDetailed ==
    /\ tool = "planParkVisit" /\ pc = "getDetailedForecast"
    /\ \E r \in DetailedResponses :
         /\ calls' = Append(calls, Call("getDetailedForecast", <<Get(loc.park).name>>, r))
         /\ pc' = "done"
         /\ IF r.threw
            THEN outcome' = ErrorOutcome /\ UNCHANGED <<loc, heap>>
            ELSE LET h1 == IF IsSome(r.val) THEN Alloc(heap, Get(r.val)) ELSE heap
                     detailedForecast == IF IsSome(r.val) THEN Some(NewRef(heap)) ELSE None
                     goodWeatherDays == NewRef(h1)
                     h2 == Alloc(h1, scoreDays(IF IsSome(detailedForecast)
                                               THEN Some(h1[Get(detailedForecast)])
                                               ELSE None))
                     h3 == [h2 EXCEPT ![goodWeatherDays] = sortByScore(h2[goodWeatherDays])]
                     forecast == IF IsSome(loc.forecast)
                                 THEN Some(h3[Get(loc.forecast)]) ELSE None
                 IN  /\ heap' = h3
                     /\ loc' = [loc EXCEPT !.detailedForecast = detailedForecast,
                                           !.goodWeatherDays = goodWeatherDays]
                     /\ outcome' =
                          [kind |-> "ok",
                           closureAlerts |-> closureAlerts(h3[loc.alerts]),
                           forecast |-> IF IsSome(forecast) /\ Len(Get(forecast)) > 0
                                        THEN forecast ELSE None,
                           recommended |-> slice(h3[goodWeatherDays], 0, TopDays),
                           tips |-> PlanTips(Get(loc.park)),
                           trip |-> PlanTrip(forecast)]
    /\ UNCHANGED <<tool, args, suspended>>

InitPlan ==
    /\ tool = "planParkVisit"
    /\ args \in PlanArgs
    /\ pc = "getParkById"
    /\ loc = PlanLoc
    /\ calls = <<>>
    /\ heap = <<>>
    /\ suspended = <<>>
    /\ outcome = Pending

NextPlan == PlanGetPark \/ PlanGetAlerts \/ PlanGetForecast \/ PlanGetDetailed

----------------------------------------------------------------------------
(* getParkAlerts                                                           *)

DefaultAlertLimit == 10

\* String.prototype.localeCompare for the characters used here: letters
\* compare by alphabet position whatever their case, after the space and
\* the digits; strings equal up to case put the lower-case letter first.
RankOf ==
    " " :> 1 @@ "0" :> 2 @@ "1" :> 3 @@ "2" :> 4 @@ "3" :> 5 @@ "4" :> 6 @@
    "5" :> 7 @@ "6" :> 8 @@ "7" :> 9 @@ "8" :> 10 @@ "9" :> 11 @@
    "a" :> 12 @@ "b" :> 13 @@ "c" :> 14 @@ "d" :> 15 @@ "e" :> 16 @@
    "f" :> 17 @@ "g" :> 18 @@ "h" :> 19 @@ "i" :> 20 @@ "j" :> 21 @@
    "k" :> 22 @@ "l" :> 23 @@ "m" :> 24 @@ "n" :> 25 @@ "o" :> 26 @@
    "p" :> 27 @@ "q" :> 28 @@ "r" :> 29 @@ "s" :> 30 @@ "t" :> 31 @@
    "u" :> 32 @@ "v" :> 33 @@ "w" :> 34 @@ "x" :> 35 @@ "y" :> 36 @@
    "z" :> 37

PrimaryRank(c) ==
    LET l == LowerChar(c) IN IF l \in DOMAIN RankOf THEN RankOf[l] ELSE 0
CaseRank(c) == IF c \in DOMAIN LowerOf THEN 1 ELSE 0

\* Lexicographic comparison of two sequences of ranks: -1, 0 or 1.
LexCompare(x, y) ==
    LET n == Min(Len(x), Len(y))
        diff == {i \in 1..n : x[i] /= y[i]}
    IN  IF diff = {}
        THEN (IF Len(x) < Len(y) THEN -1 ELSE IF Len(x) > Len(y) THEN 1 ELSE 0)
        ELSE LET i == CHOOSE d \in diff : \A e \in diff : d <= e
             IN  IF x[i] < y[i] THEN -1 ELSE 1

localeCompare(x, y) ==
    LET primary == LexCompare(AsTuple([i \in 1..Len(x) |-> PrimaryRank(x[i])]),
                              AsTuple([i \in 1..Len(y) |-> PrimaryRank(y[i])]))
    IN  IF primary /= 0 THEN primary
        ELSE LexCompare(AsTuple([i \in 1..Len(x) |-> CaseRank(x[i])]),
                        AsTuple([i \in 1..Len(y) |-> CaseRank(y[i])]))

\* Mutant of spread: no copy is made, the new name is an alias.
spread_Alias(h, ref) == [heap |-> h, ref |-> ref]

\* [...alerts]: a new array object with the elements of the array ref.
spread(h, ref) == [heap |-> Alloc(h, h[ref]), ref |-> NewRef(h)]

\* sortedAlerts.sort(...) by date (newest first), title or category.
sortAlerts(alerts, sortBy) ==
    IF sortBy = "date"
    THEN sort(alerts, LAMBDA a, b : b.lastIndexedDate - a.lastIndexedDate)
    ELSE IF sortBy = "title"
    THEN sort(alerts, LAMBDA a, b : localeCompare(a.title, b.title))
    ELSE sort(alerts, LAMBDA a, b : localeCompare(a.category, b.category))

AlertLimits == {None, Some(0), Some(2)}
SortBys == {"date", "title", "category"}

AlertsArgs ==
    { [parkCode |-> sYose, limit |-> WithDefault(l, DefaultAlertLimit), sortBy |-> sb] :
      l \in AlertLimits, sb \in SortBys }

AlertsLoc == [alerts |-> 0, park |-> None, sortedAlerts |-> 0]

AlertsGetAlerts ==
    /\ tool = "getParkAlerts" /\ pc = "getAlertsByPark"
    /\ \E r \in AlertResponses :
         /\ calls' = Append(calls, Call("getAlertsByPark", <<args.parkCode>>, r))
         /\ IF r.threw
            THEN outcome' = ErrorOutcome /\ pc' = "done" /\ UNCHANGED <<loc, heap>>
            ELSE IF Len(r.val) = 0
            THEN outcome' = [kind |-> "empty"] /\ pc' = "done" /\ UNCHANGED <<loc, heap>>
            ELSE /\ heap' = Alloc(heap, r.val)
                 /\ loc' = [loc EXCEPT !.alerts = NewRef(heap)]
                 /\ pc' = "getParkById"
                 /\ outcome' = outcome
    /\ UNCHANGED <<tool, args, suspended>>

\* The park lookup and the synchronous rest: copy, sort, limit, format.
AlertsGetPark ==
    /\ tool = "getParkAlerts" /\ pc = "getParkById"
    /\ \E r \in ParkByIdResponses :
         /\ calls' = Append(calls, Call("getParkById", <<args.parkCode>>, r))
         /\ pc' = "done"
         /\ IF r.threw
            THEN outcome' = ErrorOutcome /\ UNCHANGED <<loc, heap>>
            ELSE LET copy == spread(heap, loc.alerts)
                     h1 == [copy.heap EXCEPT ![copy.ref] =
                                sortAlerts(copy.heap[copy.ref], args.sortBy)]
                     sortedAlerts == NewRef(h1)
                     h2 == Alloc(h1, slice(h1[copy.ref], 0, args.limit))
                 IN  /\ heap' = h2
                     /\ loc' = [loc EXCEPT !.park = r.val, !.sortedAlerts = sortedAlerts]
                     /\ outcome' = [kind |-> "ok",
                                    parkName |-> IF IsSome(r.val) THEN Some(Get(r.val).name)
                                                 ELSE Some(args.parkCode),
                                    alerts |-> h2[sortedAlerts]]
    /\ UNCHANGED <<tool, args, suspended>>

InitAlerts ==
    /\ tool = "getParkAlerts"
    /\ args \in AlertsArgs
    /\ pc = "getAlertsByPark"
    /\ loc = AlertsLoc
    /\ calls = <<>>
    /\ heap = <<>>
    /\ suspended = <<>>
    /\ outcome = Pending

NextAlerts == AlertsGetAlerts \/ AlertsGetPark

\* The handlers that work on the park's forecast and alerts.
InitPark == InitPlan \/ InitAlerts
NextPark == NextPlan \/ NextAlerts
SpecPark == InitPark /\ [][NextPark]_vars

----------------------------------------------------------------------------
(* planParkVisit: the weather scorer                                       *)

PlanOk == tool = "planParkVisit" /\ pc = "done" /\ outcome.kind = "ok"

\* The detailed forecast as the provider returned it (empty when absent).
PlanInputDays ==
    LET v == CallsOf("getDetailedForecast")[1].res.val
    IN  IF IsSome(v) THEN Get(v) ELSE <<>>

\* The ranked list the handler built.
PlanRanked == heap[loc.goodWeatherDays]

\* C6: the score of every forecast day is temp + rain + cond with, for
\* avg = (minTempF + maxTempF) / 2: temp 3 if 65 <= avg <= 80, else 2 if
\* 50 <= avg <= 85, else 1; rain 3 if chance < 20, 2 if chance < 40, 1 if
\* chance < 60, else 0; cond 2 if the lower-cased condition contains
\* "sunny", "clear" or "partly cloudy", else 0.
C6_ScoreFormula ==
    PlanOk =>
      \A i \in 1..Len(PlanInputDays) :
        LET d == PlanInputDays[i]
            twiceAvg == d.minTempF + d.maxTempF
            chance == d.chanceOfRain
            temp == CASE 130 <= twiceAvg /\ twiceAvg <= 160 -> 3
                      [] 100 <= twiceAvg /\ twiceAvg <= 170 -> 2
                      [] OTHER -> 1
            rain == CASE IsSome(chance) /\ Get(chance) < 20 -> 3
                      [] IsSome(chance) /\ Get(chance) < 40 -> 2
                      [] IsSome(chance) /\ Get(chance) < 60 -> 1
                      [] OTHER -> 0
            lower == toLowerCase(d.condition)
            cond == IF \/ includes(lower, <<"s","u","n","n","y">>)
                       \/ includes(lower, <<"c","l","e","a","r">>)
                       \/ includes(lower, <<"p","a","r","t","l","y"," ","c","l","o","u","d","y">>)
                    THEN 2 ELSE 0
        IN  \E k \in 1..Len(PlanRanked) :
              PlanRanked[k].date = d.date /\ PlanRanked[k].score = temp + rain + cond

\* {70, 78, "Sunny", 10} scores 8.
C6_Witness ==
    /\ PlanOk
    /\ PlanInputDays = <<DetailedDay(1, 70, 78, sSunny, Some(10))>>
    /\ PlanRanked[1].score = 8

\* C7: every score the scorer produces is an integer from 1 to 8, also
\* for a day with no chanceOfRain.
C7_ScoreRange ==
    PlanOk => \A k \in 1..Len(PlanRanked) : PlanRanked[k].score \in 1..8

\* A day without chanceOfRain at the lowest score.
C7_Witness ==
    /\ PlanOk
    /\ PlanInputDays = <<DetailedDay(1, 40, 45, sSnow, None)>>
    /\ PlanRanked[1].score = 1

\* C8: a day that carries no chanceOfRain is scored as the same day with
\* a chanceOfRain of 0, whose rain component is 3.
C8_AbsentRainScoresThree ==
    PlanOk =>
      \A i \in 1..Len(PlanInputDays) :
        LET d == PlanInputDays[i]
            asZero == [d EXCEPT !.chanceOfRain = Some(0)]
        IN  ~IsSome(d.chanceOfRain)
            => \E k \in 1..Len(PlanRanked) :
                 /\ PlanRanked[k].date = d.date
                 /\ PlanRanked[k].score = ScoredDay(asZero).score
                 /\ rainScore(asZero) = 3

\* C9: the ranked list has one entry per input day (none for an empty or
\* absent forecast), in non-increasing order of score, days of equal score
\* in their input order.
C9_StableRanking ==
    PlanOk =>
      LET in == PlanInputDays
          out == PlanRanked
          inputIndex(date) == CHOOSE i \in 1..Len(in) : in[i].date = date
      IN  /\ Len(out) = Len(in)
          /\ \A i \in 1..Len(in) :
               Cardinality({k \in 1..Len(out) : out[k].date = in[i].date}) = 1
          /\ \A k \in 1..Len(out) : \A l \in 1..Len(out) :
               k < l => /\ out[k].score >= out[l].score
                        /\ (out[k].score = out[l].score
                            => inputIndex(out[k].date) < inputIndex(out[l].date))

\* Scores 5, 8, 5 in: the 8 first, then the two 5s in their input order.
C9_Witness ==
    /\ PlanOk
    /\ Len(PlanInputDays) = 3
    /\ PlanRanked[1].date = 2 /\ PlanRanked[1].score = 8
    /\ PlanRanked[2].date = 1 /\ PlanRanked[2].score = 5
    /\ PlanRanked[3].date = 3 /\ PlanRanked[3].score = 5

\* C10: the arrays a provider returned are never changed: the alert list,
\* the forecast and the detailed forecast of planParkVisit and the alert
\* list of getParkAlerts hold, from the call on, the elements the provider
\* returned in the provider's order, and planParkVisit displays the
\* forecast in that order.
C10_ProviderArraysUnchanged ==
    /\ (tool \in {"planParkVisit", "getParkAlerts"} /\ loc.alerts /= 0)
       => heap[loc.alerts] = CallsOf("getAlertsByPark")[1].res.val
    /\ tool = "planParkVisit"
       => /\ IsSome(loc.forecast)
             => heap[Get(loc.forecast)]
                  = Get(CallsOf("get7DayForecastByLocation")[1].res.val)
          /\ IsSome(loc.detailedForecast)
             => heap[Get(loc.detailedForecast)]
                  = Get(CallsOf("getDetailedForecast")[1].res.val)
          /\ (PlanOk /\ IsSome(outcome.forecast))
             => outcome.forecast = CallsOf("get7DayForecastByLocation")[1].res.val

\* getParkAlerts has sorted four alerts by date, newest first, and the
\* provider's list is still in the provider's order.
C10_Witness ==
    /\ tool = "getParkAlerts" /\ pc = "done" /\ outcome.kind = "ok"
    /\ args.sortBy = "date"
    /\ outcome.alerts = <<A2, A4, A1, A3>>
    /\ heap[loc.alerts] = <<A3, A2, A4, A1>>

----------------------------------------------------------------------------
(* The geocoding service on its own, and getWeatherByCoordinates           *)

GeoQueries == {sMoab, sZzzz}

\* getCoordinates(locationQuery): one http.get, then the settled promise.
GeoGet ==
    /\ tool = "getCoordinates" /\ pc = "http"
    /\ \E r \in GeoResponses :
         /\ calls' = Append(calls, Call("http.get", <<args.locationQuery>>, r))
         /\ outcome' = getCoordinates(r)
    /\ pc' = "done"
    /\ UNCHANGED <<tool, args, suspended, loc, heap>>

InitGeo ==
    /\ tool = "getCoordinates"
    /\ args \in {[locationQuery |-> q] : q \in GeoQueries}
    /\ pc = "http"
    /\ loc = <<>>
    /\ calls = <<>>
    /\ heap = <<>>
    /\ suspended = <<>>
    /\ outcome = Pending

\* latitude / longitude as z.number() admits them: any finite number.
CoordLatitudes == {Num(0, 0), Num(378651, 4), Num(90, 0), Num(91, 0), Num(-905, 1)}
CoordLongitudes == {Num(-1195383, 4), Num(180, 0), Num(-181, 0)}

\* if (!forecast || forecast.length === 0) ... else formatWeatherForecast
WeatherResponse(forecast) ==
    IF ~IsSome(forecast) \/ Len(Get(forecast)) = 0
    THEN [kind |-> "notAvailable"]
    ELSE [kind |-> "ok", forecast |-> Get(forecast)]

WeatherByCoords ==
    /\ tool = "getWeatherByCoordinates" /\ pc = "forecast"
    /\ \E r \in ForecastResponses :
         /\ calls' = Append(calls, Call("get7DayForecastByCoords",
                                        <<args.latitude, args.longitude>>, r))
         /\ outcome' = IF r.threw THEN ErrorOutcome ELSE WeatherResponse(r.val)
    /\ pc' = "done"
    /\ UNCHANGED <<tool, args, suspended, loc, heap>>

InitWeatherByCoords ==
    /\ tool = "getWeatherByCoordinates"
    /\ args \in {[latitude |-> lat, longitude |-> lon] :
                   lat \in CoordLatitudes, lon \in CoordLongitudes}
    /\ pc = "forecast"
    /\ loc = <<>>
    /\ calls = <<>>
    /\ heap = <<>>
    /\ suspended = <<>>
    /\ outcome = Pending

InitCoords == InitGeo \/ InitWeatherByCoords
NextCoords == GeoGet \/ WeatherByCoords
SpecCoords == InitCoords /\ [][NextCoords]_vars

GeoDone == tool = "getCoordinates" /\ pc = "done"

\* The answer http.get gave to this getCoordinates.
GeoAnswer == calls[1].res

\* The first candidate of the answer, when the answer is a non-empty list
\* whose first element is a record.
GeoHasFirst ==
    /\ ~GeoAnswer.threw /\ IsSome(GeoAnswer.val)
    /\ Len(Get(GeoAnswer.val)) > 0 /\ IsSome(Get(GeoAnswer.val)[1])
GeoFirst == Get(Get(GeoAnswer.val)[1])

\* C11: getCoordinates never rejects; when http.get throws, or reading the
\* first candidate throws because it is null, the promise resolves to null,
\* as it does for an empty candidate list.
C11_NeverPropagates ==
    GeoDone =>
      /\ ~outcome.threw
      /\ (\/ GeoAnswer.threw
          \/ (IsSome(GeoAnswer.val) /\ Len(Get(GeoAnswer.val)) > 0
              /\ ~IsSome(Get(GeoAnswer.val)[1]))
          \/ GeoAnswer = Ok(Some(<<>>)))
         => outcome = Ok(None)

\* http.get threw and getCoordinates resolved to null.
C11_Witness == GeoDone /\ GeoAnswer.threw /\ outcome = Ok(None)

\* C12: for a non-empty candidate list whose first candidate carries
\* numerals, getCoordinates resolves to the first candidate's display name
\* and to the numbers its lat and lon numerals denote; for an empty or
\* absent list it resolves to null, with no error.
C12_FirstCandidate ==
    LET \* the number each numeral denotes: <<m, e>> is m / 10^e, m not
        \* a multiple of 10 unless e = 0
        Denotes == (s38 :> <<38, 0>>) @@ (s37_8651 :> <<378651, 4>>)
                   @@ (s90_0 :> <<90, 0>>) @@ (s95 :> <<95, 0>>)
                   @@ (sM90_5 :> <<-905, 1>>) @@ (s4e1 :> <<40, 0>>)
                   @@ (sM109 :> <<-109, 0>>) @@ (sM119_5383 :> <<-1195383, 4>>)
                   @@ (s180 :> <<180, 0>>) @@ (sM181 :> <<-181, 0>>)
        IsNumeral(x) == IsSome(x) /\ Get(x) \in DOMAIN Denotes
        Equals(n, x) ==
            /\ IsSome(n)
            /\ Get(n).m = Denotes[Get(x)][1]
            /\ Get(n).e = Denotes[Get(x)][2]
    IN  GeoDone =>
          /\ (GeoHasFirst /\ IsNumeral(GeoFirst.lat) /\ IsNumeral(GeoFirst.lon))
             => /\ ~outcome.threw /\ IsSome(outcome.val)
                /\ Equals(Get(outcome.val).latitude, GeoFirst.lat)
                /\ Equals(Get(outcome.val).longitude, GeoFirst.lon)
                /\ Get(outcome.val).displayName = GeoFirst.display_name
          /\ (GeoAnswer = Ok(None) \/ GeoAnswer = Ok(Some(<<>>)))
             => outcome = Ok(None)

\* lat "37.8651", lon "-119.5383" come back as 37.8651 and -119.5383.
C12_Witness ==
    /\ GeoDone /\ GeoHasFirst
    /\ GeoFirst.lat = Some(s37_8651) /\ GeoFirst.lon = Some(sM119_5383)
    /\ Get(outcome.val).latitude = Some([m |-> 378651, e |-> 4])
    /\ Get(outcome.val).longitude = Some([m |-> -1195383, e |-> 4])

\* C13: when the first candidate's lat or lon is missing or is not a
\* number, getCoordinates gives the not-found outcome (null) and no result
\* that carries a coordinate which is not a number.
C13_ParseFailureIsNotFound ==
    LET NotANumber == {None, Some(<<>>), Some(sUnknown)}
    IN  (/\ GeoDone /\ GeoHasFirst
         /\ (GeoFirst.lat \in NotANumber \/ GeoFirst.lon \in NotANumber))
        => outcome = Ok(None)

\* C14: the latitude and longitude of every coordinate-keyed provider
\* query (facilities by location, parks by location, forecast by
\* coordinates) are numbers with -90 <= latitude <= 90 and
\* -180 <= longitude <= 180.
C14_CoordinatesInRange ==
    LET InRange(x, bound) ==
            /\ IsSome(x)
            /\ 0 - bound * Pow10(Get(x).e) <= Get(x).m
            /\ Get(x).m <= bound * Pow10(Get(x).e)
    IN  \A k \in 1..Len(calls) :
          /\ calls[k].op \in {"getFacilitiesByLocation", "searchParksByLocation"}
             => InRange(calls[k].args[1], 90) /\ InRange(calls[k].args[2], 180)
          /\ calls[k].op = "get7DayForecastByCoords"
             => InRange(Some(calls[k].args[1]), 90) /\ InRange(Some(calls[k].args[2]), 180)

\* C15: the closure alerts of planParkVisit are the provider's alerts whose
\* title or category contains "closure", or whose title contains "closed",
\* whatever the case of the letters, in the provider's order.
C15_ClosureAlerts ==
    PlanOk =>
      LET alerts == CallsOf("getAlertsByPark")[1].res.val
          Has(text, word) == includes(toLowerCase(text), word)
          relevant(a) ==
              \/ Has(a.title, <<"c","l","o","s","u","r","e">>)
              \/ Has(a.category, <<"c","l","o","s","u","r","e">>)
              \/ Has(a.title, <<"c","l","o","s","e","d">>)
      IN  /\ outcome.closureAlerts = SelectSeq(alerts, relevant)
          /\ relevant(Alert(sTrailWork, sParkClosure, 1))
          /\ ~relevant(Alert(sWildlifeAdvisory, sSafety, 5))

\* The category-only match A3 and the title matches A4, A1 are kept in the
\* provider's order, and A2 (Wildlife Advisory / Safety) is left out.
C15_Witness ==
    /\ PlanOk
    /\ CallsOf("getAlertsByPark")[1].res.val = <<A3, A2, A4, A1>>
    /\ outcome.closureAlerts = <<A3, A4, A1>>

----------------------------------------------------------------------------
(* Dates: new Date(), setDate, toISOString().split('T')[0]                 *)
(* The runtime's time zone is taken to be UTC.                             *)

Date(year, month, day) == [year |-> year, month |-> month, day |-> day]

IsLeap(year) == year % 4 = 0 /\ (year % 100 /= 0 \/ year % 400 = 0)

MonthLength(year, month) ==
    IF month = 2 THEN (IF IsLeap(year) THEN 29 ELSE 28)
    ELSE IF month \in {4, 6, 9, 11} THEN 30 ELSE 31

\* Date.prototype.setDate(n) for n >= 1: day n of the month of d, running
\* over into the following months when the month is shorter than n.
RECURSIVE setDate(_, _)
setDate(d, n) ==
    IF n <= MonthLength(d.year, d.month) THEN Date(d.year, d.month, n)
    ELSE setDate(IF d.month = 12 THEN Date(d.year + 1, 1, 1)
                 ELSE Date(d.year, d.month + 1, 1),
                 n - MonthLength(d.year, d.month))

\* d.toISOString().split('T')[0]: the text YYYY-MM-DD, kept as its fields.
toISODate(d) == <<d.year, d.month, d.day>>

\* The days on which new Date() is read first.
ClockDays ==
    { Date(2025, 1, 10), Date(2025, 1, 31), Date(2025, 2, 15),
      Date(2025, 2, 28), Date(2025, 12, 25) }

\* Two readings of the clock in a row: the second is the same day, or the
\* next day when midnight falls between the two.
ClockReadings ==
    { <<t, t>> : t \in ClockDays } \cup { <<t, setDate(t, t.day + 1)>> : t \in ClockDays }

InfoWindowDays == 14
EventsWindowDays == 30

\* Mutant of defaultWindow: the end is counted from the day after today.
defaultWindow_OffByOne(today, endDate, days) ==
    [start |-> toISODate(today),
     end |-> toISODate(setDate(endDate, today.day + days + 1))]

\* const today = new Date(); const endDate = new Date();
\* endDate.setDate(today.getDate() + days); and both as ISO dates.
defaultWindow(today, endDate, days) ==
    [start |-> toISODate(today),
     end |-> toISODate(setDate(endDate, today.day + days))]

----------------------------------------------------------------------------
(* getParkInfo, getParkEvents and the parkEvents resource                  *)

Event(title, dateStart) == [title |-> title, dateStart |-> dateStart]
Ev1 == Event(sRim, <<2025, 1, 12>>)
Ev2 == Event(sCreek, <<2025, 2, 2>>)
EventResponses == { Throw, Ok(<<>>), Ok(<<Ev1, Ev2>>) }

Campground(name, totalSites) == [name |-> name, totalSites |-> totalSites]
CampgroundResponses == { Throw, Ok(<<>>), Ok(<<Campground(sPineCamp, Some(12))>>) }

InfoParkResponses == { Throw, Ok(None), Ok(Some(P1)) }

\* A park record that has images.
ParkWithImages == [parkCode |-> sYose, name |-> sYosemite, images |-> <<sRim>>]
InfoLookupResponses == InfoParkResponses \cup { Ok(Some(ParkWithImages)) }
InfoAlertResponses == { Throw, Ok(<<>>), Ok(<<A3, A2, A4, A1>>) }
InfoForecastResponses ==
    { Throw, Ok(None), Ok(Some(<<ForecastDay(1, 70, 78, sSunny)>>)) }

InfoFlags == {None, Some(FALSE)}

\* The parameters of getParkInfo, defaults (true) applied.
InfoArgs ==
    { [parkCode |-> sYose,
       includeBasics |-> WithDefault(b, TRUE),
       includeAlerts |-> WithDefault(a, TRUE),
       includeWeather |-> WithDefault(w, TRUE),
       includeEvents |-> WithDefault(e, TRUE),
       includeCamping |-> WithDefault(c, TRUE),
       includeImages |-> WithDefault(i, TRUE)] :
      b \in InfoFlags, a \in InfoFlags, w \in InfoFlags, e \in InfoFlags,
      c \in InfoFlags, i \in InfoFlags }

InfoStages == <<"alerts", "weather", "events", "camping">>

InfoWanted(a, stage) ==
    CASE stage = "alerts" -> a.includeAlerts
      [] stage = "weather" -> a.includeWeather
      [] stage = "events" -> a.includeEvents
      [] stage = "camping" -> a.includeCamping

\* Mutant of InfoNext: every section is fetched, whatever its flag.
InfoNext_IgnoreFlags(a, k) ==
    IF k < Len(InfoStages) THEN InfoStages[k + 1] ELSE "done"

\* The next await after the one at position k of InfoStages (0: after the
\* park lookup): the first later section whose flag is set, or the return.
InfoNext(a, k) ==
    LET later == {j \in (k + 1)..Len(InfoStages) : InfoWanted(a, InfoStages[j])}
    IN  IF later = {} THEN "done"
        ELSE InfoStages[CHOOSE j \in later : \A i \in later : j <= i]

\* One section of the response: how many items, those shown, how many more.
InfoSection(name, items, shown) ==
    [section |-> name, count |-> Len(items),
     shown |-> slice(items, 0, shown),
     more |-> IF Len(items) > shown THEN Some(Len(items) - shown) ELSE None]

\* Static information, from the park record.
InfoBasics(a) ==
    IF a.includeBasics THEN <<[section |-> "basics"]>> ELSE <<>>

\* The gallery, from the park record.
InfoGallery(a, park) ==
    IF a.includeImages /\ "images" \in DOMAIN park /\ Len(park.images) > 0
    THEN <<[section |-> "gallery", count |-> Len(park.images)]>>
    ELSE <<>>

\* After an await: go on to the next one, or return the response.
InfoStep(l, k, sections) ==
    /\ loc' = [l EXCEPT !.response = sections]
    /\ pc' = InfoNext(args, k)
    /\ outcome' = IF InfoNext(args, k) = "done"
                  THEN [kind |-> "ok",
                        response |-> sections \o InfoGallery(args, Get(l.park))]
                  ELSE outcome

InfoFail(l) ==
    /\ pc' = "done" /\ outcome' = ErrorOutcome /\ loc' = l

InfoGetPark ==
    /\ tool = "getParkInfo" /\ pc = "park"
    /\ \E r \in InfoLookupResponses :
         /\ calls' = Append(calls, Call("getParkById", <<args.parkCode>>, r))
         /\ IF r.threw THEN InfoFail(loc)
            ELSE IF ~IsSome(r.val)
            THEN /\ pc' = "done" /\ outcome' = NotFoundOutcome /\ loc' = loc
            ELSE InfoStep([loc EXCEPT !.park = r.val], 0, InfoBasics(args))
    /\ UNCHANGED <<tool, args, suspended, heap>>

InfoGetAlerts ==
    /\ tool = "getParkInfo" /\ pc = "alerts"
    /\ \E r \in InfoAlertResponses :
         /\ calls' = Append(calls, Call("getAlertsByPark", <<args.parkCode>>, r))
         /\ IF r.threw THEN InfoFail(loc)
            ELSE InfoStep(loc, 1, Append(loc.response, InfoSection("alerts", r.val, 3)))
    /\ UNCHANGED <<tool, args, suspended, heap>>

InfoGetWeather ==
    /\ tool = "getParkInfo" /\ pc = "weather"
    /\ \E r \in InfoForecastResponses :
         /\ calls' = Append(calls, Call("get7DayForecastByLocation",
                                        <<Get(loc.park).name>>, r))
         /\ IF r.threw THEN InfoFail(loc)
            ELSE InfoStep(loc, 2, Append(loc.response,
                     IF ~IsSome(r.val) \/ Len(Get(r.val)) = 0
                     THEN [section |-> "weather", count |-> 0, shown |-> <<>>,
                           more |-> None]
                     ELSE [section |-> "weather", count |-> Len(Get(r.val)),
                           shown |-> Get(r.val), more |-> None]))
    /\ UNCHANGED <<tool, args, suspended, heap>>

InfoGetEvents ==
    /\ tool = "getParkInfo" /\ pc = "events"
    /\ \E now \in ClockReadings, r \in EventResponses :
         LET window == defaultWindow(now[1], now[2], InfoWindowDays)
             read == [loc EXCEPT !.today = Some(now[1])]
         IN  /\ calls' = Append(calls, Call("getEventsByPark",
                    <<args.parkCode, window.start, window.end>>, r))
             /\ IF r.threw THEN InfoFail(read)
                ELSE InfoStep(read, 3, Append(loc.response, InfoSection("events", r.val, 5)))
    /\ UNCHANGED <<tool, args, suspended, heap>>

InfoGetCamping ==
    /\ tool = "getParkInfo" /\ pc = "camping"
    /\ \E r \in CampgroundResponses :
         /\ calls' = Append(calls, Call("getCampgroundsByPark", <<args.parkCode>>, r))
         /\ IF r.threw THEN InfoFail(loc)
            ELSE InfoStep(loc, 4, Append(loc.response, InfoSection("camping", r.val, 3)))
    /\ UNCHANGED <<tool, args, suspended, heap>>

InitInfo ==
    /\ tool = "getParkInfo"
    /\ args \in InfoArgs
    /\ pc = "park"
    /\ loc = [park |-> None, today |-> None, response |-> <<>>]
    /\ calls = <<>>
    /\ heap = <<>>
    /\ suspended = <<>>
    /\ outcome = Pending

NextInfo ==
    InfoGetPark \/ InfoGetAlerts \/ InfoGetWeather \/ InfoGetEvents \/ InfoGetCamping

EventDates == {None, Some(<<>>), Some(<<2025, 1, 5>>), Some(<<2025, 3, 1>>)}
DefaultEventLimit == 10
EventLimits == {None, Some(1)}

\* The parameters of getParkEvents, the default of limit applied.
EventsArgs ==
    { [parkCode |-> sYose, startDate |-> sd, endDate |-> ed,
       limit |-> WithDefault(l, DefaultEventLimit)] :
      sd \in EventDates, ed \in EventDates, l \in EventLimits }

\* startDate || today.toISOString().split('T')[0]
OrElse(supplied, default) == IF Truthy(supplied) THEN Get(supplied) ELSE default

EventsGetEvents ==
    /\ tool = "getParkEvents" /\ pc = "events"
    /\ \E now \in ClockReadings, r \in EventResponses :
         LET window == defaultWindow(now[1], now[2], EventsWindowDays)
             effectiveStartDate == OrElse(args.startDate, window.start)
             effectiveEndDate == OrElse(args.endDate, window.end)
             read == [loc EXCEPT !.today = Some(now[1]),
                                 !.effectiveStartDate = effectiveStartDate,
                                 !.effectiveEndDate = effectiveEndDate]
         IN  /\ calls' = Append(calls, Call("getEventsByPark",
                    <<args.parkCode, effectiveStartDate, effectiveEndDate>>, r))
             /\ IF r.threw
                THEN /\ pc' = "done" /\ outcome' = ErrorOutcome /\ loc' = read
                ELSE IF Len(r.val) = 0
                THEN /\ pc' = "done" /\ loc' = read
                     /\ outcome' = [kind |-> "noEvents",
                                    from |-> effectiveStartDate,
                                    to |-> effectiveEndDate]
                ELSE /\ pc' = "park" /\ outcome' = outcome
                     /\ loc' = [read EXCEPT !.events = r.val]
    /\ UNCHANGED <<tool, args, suspended, heap>>

EventsGetPark ==
    /\ tool = "getParkEvents" /\ pc = "park"
    /\ \E r \in InfoParkResponses :
         /\ calls' = Append(calls, Call("getParkById", <<args.parkCode>>, r))
         /\ outcome' =
              IF r.threw THEN ErrorOutcome
              ELSE [kind |-> "ok",
                    parkName |-> IF IsSome(r.val) THEN Get(r.val).name
                                 ELSE args.parkCode,
                    from |-> loc.effectiveStartDate,
                    to |-> loc.effectiveEndDate,
                    found |-> Len(loc.events),
                    events |-> slice(loc.events, 0, args.limit)]
    /\ pc' = "done"
    /\ UNCHANGED <<tool, args, suspended, loc, heap>>

InitEvents ==
    /\ tool = "getParkEvents"
    /\ args \in EventsArgs
    /\ pc = "events"
    /\ loc = [today |-> None, effectiveStartDate |-> <<>>,
              effectiveEndDate |-> <<>>, events |-> <<>>]
    /\ calls = <<>>
    /\ heap = <<>>
    /\ suspended = <<>>
    /\ outcome = Pending

\* The parkEvents resource (events://{parkCode}): no try / catch, a throw
\* of the provider rejects the read.
ResourceEvents ==
    /\ tool = "parkEvents" /\ pc = "events"
    /\ \E now \in ClockReadings, r \in EventResponses :
         LET window == defaultWindow(now[1], now[2], EventsWindowDays)
         IN  /\ calls' = Append(calls, Call("getEventsByPark",
                    <<args.parkCode, window.start, window.end>>, r))
             /\ loc' = [loc EXCEPT !.today = Some(now[1])]
             /\ outcome' = IF r.threw THEN [kind |-> "rejected"]
                           ELSE [kind |-> "ok", events |-> r.val]
    /\ pc' = "done"
    /\ UNCHANGED <<tool, args, suspended, heap>>

InitResourceEvents ==
    /\ tool = "parkEvents"
    /\ args \in {[parkCode |-> c] : c \in {sYose, sGrca}}
    /\ pc = "events"
    /\ loc = [today |-> None]
    /\ calls = <<>>
    /\ heap = <<>>
    /\ suspended = <<>>
    /\ outcome = Pending

InitWindows == InitInfo \/ InitEvents \/ InitResourceEvents
NextWindows == NextInfo \/ EventsGetEvents \/ EventsGetPark \/ ResourceEvents
SpecWindows == InitWindows /\ [][NextWindows]_vars

\* The events query of the request, once issued.
EventsQuery == CallsOf("getEventsByPark")[1]
EventsQueried == Len(CallsOf("getEventsByPark")) > 0

\* C16: with no dates supplied the events query of getParkInfo is for
\* [today, today + 14 days] and that of getParkEvents and of the parkEvents
\* resource for [today, today + 30 days]; a startDate or endDate supplied
\* to getParkEvents takes the place of the default bound.
C16_EventWindows ==
    LET \* days from 1 January 2025 to the date
        RECURSIVE DaysBefore(_, _)
        DaysBefore(year, month) ==
            IF month = 1 THEN (IF year = 2025 THEN 0 ELSE 365)
            ELSE DaysBefore(year, month - 1)
                 + (IF month - 1 = 2 THEN 28
                    ELSE IF month - 1 \in {4, 6, 9, 11} THEN 30 ELSE 31)
        Ordinal(iso) == DaysBefore(iso[1], iso[2]) + iso[3]
        today == toISODate(Get(loc.today))
        start == EventsQuery.args[2]
        end == EventsQuery.args[3]
        span == IF tool = "getParkInfo" THEN 14 ELSE 30
    IN  (tool \in {"getParkInfo", "getParkEvents", "parkEvents"} /\ EventsQueried)
        => /\ (tool = "getParkEvents" /\ IsSome(args.startDate))
              => start = Get(args.startDate)
           /\ (tool = "getParkEvents" /\ IsSome(args.endDate))
              => end = Get(args.endDate)
           /\ (tool /= "getParkEvents" \/ ~IsSome(args.startDate))
              => start = today
           /\ (tool /= "getParkEvents" \/ ~IsSome(args.endDate))
              => Ordinal(end) = Ordinal(today) + span

----------------------------------------------------------------------------
(* findNearbyRecreation: order of the queries, trail fan-out, filtering    *)

\* The facilities, parks and trail queries have all returned.
RecQueried ==
    /\ tool = "findNearbyRecreation"
    /\ pc = "weather" \/ (pc = "done" /\ outcome.kind = "ok")

\* The parks the parks query returned.
RecParksFound == CallsOf("searchParksByLocation")[1].res.val

\* C17: in the log of a findNearbyRecreation request the geocoding call
\* comes before every facilities or parks query, the parks query before
\* every trail query, every trail query is for a park code the parks query
\* returned, and nothing is filtered while a query is still to come.
C17_QueryOrder ==
    tool = "findNearbyRecreation" =>
      /\ \A k \in 1..Len(calls) :
           /\ calls[k].op \in {"getFacilitiesByLocation", "searchParksByLocation"}
              => \E j \in 1..(k - 1) :
                   calls[j].op = "getCoordinates" /\ IsSome(getCoordinates(calls[j].res).val)
           /\ calls[k].op = "getTrailsByPark"
              => \E j \in 1..(k - 1) :
                   /\ calls[j].op = "searchParksByLocation" /\ ~calls[j].res.threw
                   /\ \E n \in 1..Len(calls[j].res.val) :
                        calls[k].args = <<calls[j].res.val[n].parkCode>>
      /\ pc \in {"geocode", "facilities", "parks", "trails"}
         => loc.filteredFacilities = <<>> /\ loc.filteredTrails = <<>>
      /\ (loc.filteredFacilities /= <<>> \/ loc.filteredTrails /= <<>>)
         => /\ Len(CallsOf("getFacilitiesByLocation")) = 1
            /\ Len(CallsOf("searchParksByLocation")) = 1
            /\ (args.includeTrails
                => Len(CallsOf("getTrailsByPark"))
                     = Len(SelectSeq(RecParksFound, LAMBDA q : Len(q.parkCode) > 0)))

\* Geocoding, facilities, parks, two trail queries, and only then a
\* filtered result.
C17_Witness ==
    /\ RecQueried /\ pc = "weather"
    /\ Len(calls) = 5
    /\ calls[1].op = "getCoordinates" /\ calls[3].op = "searchParksByLocation"
    /\ calls[4].op = "getTrailsByPark" /\ calls[5].op = "getTrailsByPark"
    /\ Len(loc.filteredTrails) > 0

C19_AtMostFiveParks ==
    tool = "findNearbyRecreation" =>
      /\ Len(CallsOf("getTrailsByPark")) <= 5
      /\ (pc = "done" /\ outcome.kind = "ok") => Len(outcome.parks) <= 5

\* C20: with an activity term, the trails retained are those with a
\* permitted-use list one of whose entries contains the term, and those
\* with no such list whose name or description contains it, whatever the
\* case of the letters.
C20_TrailFilter ==
    (RecQueried /\ IsSome(args.activityType)) =>
      LET term == toLowerCase(Get(args.activityType))
          Has(text) == includes(toLowerCase(text), term)
          retained(t) ==
              IF IsSome(t.trailUse)
              THEN \E k \in 1..Len(Get(t.trailUse)) : Has(Get(t.trailUse)[k])
              ELSE Has(t.name) \/ (IsSome(t.description) /\ Has(Get(t.description)))
      IN  loc.filteredTrails = SelectSeq(loc.trails, retained)

\* C20 amended: the same for a term that is not the empty string; with the
\* empty string as the term every trail is retained.
C20_TrailFilterNonEmptyTerm ==
    (RecQueried /\ IsSome(args.activityType)) =>
      LET term == toLowerCase(Get(args.activityType))
          Has(text) == includes(toLowerCase(text), term)
          retained(t) ==
              IF IsSome(t.trailUse)
              THEN \E k \in 1..Len(Get(t.trailUse)) : Has(Get(t.trailUse)[k])
              ELSE Has(t.name) \/ (IsSome(t.description) /\ Has(Get(t.description)))
      IN  IF Get(args.activityType) = <<>>
          THEN loc.filteredTrails = loc.trails
          ELSE loc.filteredTrails = SelectSeq(loc.trails, retained)

\* Term "Hik": T1 is kept for its use "Hiking", T2 ("Hike Loop", use
\* "Horse") is dropped although its name matches.
C20_Witness ==
    /\ RecQueried /\ args.activityType = Some(sHik)
    /\ loc.trails = <<T1, T2>>
    /\ loc.filteredTrails = <<T1>>

\* Whether a text contains the term, ignoring case.
ContainsCI(text, term) ==
    \E i \in 0..(Len(text) - Len(term)) :
        \A j \in 1..Len(term) : LowerChar(text[i + j]) = LowerChar(term[j])

\* C21: with an activity term supplied, the retained facilities are exactly
\* the facilities whose name or description contains the term, ignoring
\* case, in provider order; with no term supplied the facilities and the
\* trails pass through unfiltered.
C21_FacilityFilter ==
    RecQueried
    => IF IsSome(args.activityType)
       THEN LET term == Get(args.activityType)
            IN  loc.filteredFacilities
                  = SelectSeq(loc.facilities,
                              LAMBDA f :
                                  \/ ContainsCI(f.facilityName, term)
                                  \/ /\ IsSome(f.facilityDescription)
                                     /\ ContainsCI(Get(f.facilityDescription), term))
       ELSE /\ loc.filteredFacilities = loc.facilities
            /\ loc.filteredTrails = loc.trails

\* C21 witness: the term "Hik" keeps "Pine Camp" for its description
\* "Hiking base" and "HIKER HUT" for its name, and drops "Boat Dock".
C21_Witness ==
    /\ RecQueried
    /\ args.activityType = Some(sHik)
    /\ loc.facilities = <<F1, F2, F3>>
    /\ loc.filteredFacilities = <<F1, F2>>

\* C22: the response presents the first min(8, n) of the n filtered
\* facilities and the first min(8, m) of the m filtered trails, in order,
\* and reports the remainder n - 8 (m - 8) exactly when n > 8 (m > 8).
C22_Truncation ==
    (RecDone /\ outcome.kind = "ok")
    => LET n == Len(loc.filteredFacilities)
           m == Len(loc.filteredTrails)
       IN  /\ Len(outcome.facilities) = Min(MaxShown, n)
           /\ \A i \in 1..Min(MaxShown, n) :
                  outcome.facilities[i] = loc.filteredFacilities[i]
           /\ Len(outcome.trails) = Min(MaxShown, m)
           /\ \A i \in 1..Min(MaxShown, m) :
                  outcome.trails[i] = loc.filteredTrails[i]
           /\ outcome.moreFacilities = IF n > MaxShown THEN Some(n - MaxShown) ELSE None
           /\ outcome.moreTrails = IF m > MaxShown THEN Some(m - MaxShown) ELSE None

\* C22 witness: ten facilities and ten trails, eight of each presented and
\* two of each reported as the remainder.
C22_Witness ==
    /\ RecDone /\ outcome.kind = "ok"
    /\ Len(loc.filteredFacilities) = 10 /\ Len(outcome.facilities) = 8
    /\ outcome.moreFacilities = Some(2)
    /\ Len(loc.filteredTrails) = 10 /\ Len(outcome.trails) = 8
    /\ outcome.moreTrails = Some(2)

\* C23: in findParks a query that throws yields the error outcome, which is
\* not the outcome of a successful query that returned no parks; a failure
\* is never reported as "no parks found".
C23_FailureIsNotEmpty ==
    FindDone
    => /\ calls[1].res.threw => outcome.kind = "error"
       /\ (~calls[1].res.threw /\ IsSome(calls[1].res.val)
              /\ Len(Get(calls[1].res.val)) = 0)
          => outcome.kind = "empty"
       /\ outcome.kind = "empty" => ~calls[1].res.threw
       /\ ErrorOutcome /= FindResponse(<<>>)

\* C23 witness: a request whose query threw has returned the error outcome.
C23_Witness ==
    /\ FindDone
    /\ calls[1].res.threw
    /\ outcome = ErrorOutcome

\* C24: no retries. Within a request, once a provider call has thrown, no
\* later call is issued to the same operation with the same arguments, and
\* geocoding is called at most once.
C24_NoRetries ==
    /\ \A i \in 1..Len(calls) :
           calls[i].res.threw
           => \A j \in (i + 1)..Len(calls) :
                  ~(calls[j].op = calls[i].op /\ calls[j].args = calls[i].args)
    /\ Len(CallsOf("getCoordinates")) <= 1
    /\ Len(CallsOf("http.get")) <= 1

\* C24 witness: the trail query for a park that had been queried before
\* threw, and the request ended there, after a single geocoding call.
C24_Witness ==
    /\ RecDone
    /\ Len(CallsOf("getCoordinates")) = 1
    /\ Len(CallsOf("getTrailsByPark")) = 3
    /\ LET t == CallsOf("getTrailsByPark")
       IN  /\ t[1].args = t[3].args
           /\ ~t[1].res.threw
           /\ t[3].res.threw
    /\ calls[Len(calls)].op = "getTrailsByPark"

\* Every query issued after geocoding returned an empty collection.
RecAllEmpty ==
    /\ \A k \in 2..Len(calls) :
           /\ ~calls[k].res.threw
           /\ calls[k].res.val \in {<<>>, Some(<<>>)}
    /\ Len(CallsOf("get7DayForecastByLocation")) = 1

\* The "No Recreation Areas Found" response.
RecNothingFound ==
    /\ outcome.kind = "ok"
    /\ ~outcome.foundSomething
    /\ outcome.parks = <<>> /\ outcome.facilities = <<>> /\ outcome.trails = <<>>

\* C26: once geocoding has succeeded the request completes after finitely
\* many steps, and if the facilities, parks and trail queries all returned
\* empty collections and the forecast was empty it completes with the
\* "nothing found" response, not with an error.
C26_EmptyIsNothingFound ==
    (tool = "findNearbyRecreation" /\ pc = "facilities")
    ~> (RecDone /\ (RecAllEmpty => RecNothingFound))

\* C26 witness: facilities, parks and forecast all came back empty and the
\* request returned the "nothing found" response.
C26_Witness ==
    /\ RecDone
    /\ Len(calls) = 4
    /\ RecAllEmpty
    /\ RecNothingFound

\* The provider operation of each section of getParkInfo.
InfoOp(stage) ==
    CASE stage = "alerts" -> "getAlertsByPark"
      [] stage = "weather" -> "get7DayForecastByLocation"
      [] stage = "events" -> "getEventsByPark"
      [] stage = "camping" -> "getCampgroundsByPark"

\* The operations of the sections whose flag is true, in the fixed order.
InfoWantedOps ==
    LET wanted == SelectSeq(InfoStages, LAMBDA stage : InfoWanted(args, stage))
    IN  [k \in 1..Len(wanted) |-> InfoOp(wanted[k])]

\* The operations called after the park lookup.
InfoIssuedOps == [k \in 1..(Len(calls) - 1) |-> calls[k + 1].op]

\* getParkInfo has looked up a park that exists.
InfoParkExists ==
    /\ tool = "getParkInfo" /\ calls /= <<>>
    /\ ~calls[1].res.threw /\ IsSome(calls[1].res.val)

\* C29 as stated: in getParkInfo, for a park that exists, the alerts,
\* weather, events and campgrounds calls are each issued if and only if the
\* corresponding flag is true, in that order; includeBasics and
\* includeImages cause no provider call.
C29_FlagsDecideCalls ==
    (InfoParkExists /\ pc = "done")
    => AsTuple(InfoIssuedOps) = AsTuple(InfoWantedOps)

\* C29 amended: for a park that exists, the calls issued after the lookup
\* are those of the sections whose flag is true, in the order alerts,
\* weather, events, campgrounds, up to the first call that throws; that
\* call ends the request with an error. A request that returns a response
\* has issued exactly the calls whose flag is true. includeBasics and
\* includeImages cause no provider call.
C29_FlagsDecideCallsUntilFailure ==
    InfoParkExists
    => /\ Len(InfoIssuedOps) <= Len(InfoWantedOps)
       /\ \A k \in 1..Len(InfoIssuedOps) : InfoIssuedOps[k] = InfoWantedOps[k]
       /\ \A k \in 1..(Len(calls) - 1) : ~calls[k].res.threw
       /\ pc = "done"
          => IF calls[Len(calls)].res.threw
             THEN outcome = ErrorOutcome
             ELSE /\ outcome.kind = "ok"
                  /\ Len(InfoIssuedOps) = Len(InfoWantedOps)

\* C29 witness: with includeAlerts and includeEvents false, a park that has
\* images got the weather and the campgrounds call, in that order, and the
\* response has the static section and the gallery.
C29_Witness ==
    /\ InfoParkExists /\ pc = "done" /\ outcome.kind = "ok"
    /\ args.includeBasics /\ args.includeImages
    /\ ~args.includeAlerts /\ ~args.includeEvents
    /\ AsTuple(InfoIssuedOps) = <<"get7DayForecastByLocation", "getCampgroundsByPark">>
    /\ outcome.response[1].section = "basics"
    /\ outcome.response[Len(outcome.response)].section = "gallery"

\* Order of two dates written YYYY-MM-DD.
DateLeq(a, b) ==
    \/ a[1] < b[1]
    \/ a[1] = b[1] /\ a[2] < b[2]
    \/ a[1] = b[1] /\ a[2] = b[2] /\ a[3] <= b[3]

\* C30: whenever the caller of getParkEvents supplies only one of startDate
\* and endDate, the window passed to the events provider has its start date
\* on or before its end date.
C30_WindowOrdered ==
    (/\ tool = "getParkEvents" /\ EventsQueried
     /\ Truthy(args.startDate) /= Truthy(args.endDate))
    => DateLeq(EventsQuery.args[2], EventsQuery.args[3])

-----------------------------------------------------------------------------
(* getCampgrounds                                                          *)

CampLimits == {None} \cup {Some(n) : n \in {-1, 0, 2}}
CampStarts == {None} \cup {Some(n) : n \in {-2, 1, 3}}

\* The parameters of getCampgrounds, defaults applied.
CampArgs ==
    { [parkCode |-> sYose,
       limit |-> WithDefault(l, DefaultLimit),
       start |-> WithDefault(st, DefaultStart)] :
      l \in CampLimits, st \in CampStarts }

CampListResponses ==
    CampgroundResponses
    \cup { Ok(<<Campground(sPineCamp, Some(12)), Campground(sHikerHut, None),
                Campground(sBoatDock, Some(4))>>) }

\* Mutant of CampGetPark: the result of the park lookup is not tested.
CampGetPark_NoCheck ==
    /\ tool = "getCampgrounds" /\ pc = "park"
    /\ \E r \in InfoParkResponses :
         /\ calls' = Append(calls, Call("getParkById", <<args.parkCode>>, r))
         /\ IF r.threw
            THEN outcome' = ErrorOutcome /\ pc' = "done" /\ loc' = loc
            ELSE /\ loc' = [loc EXCEPT !.park = r.val]
                 /\ pc' = "campgrounds"
                 /\ outcome' = outcome
    /\ UNCHANGED <<tool, args, suspended, heap>>

\* Get park info for context.
CampGetPark ==
    /\ tool = "getCampgrounds" /\ pc = "park"
    /\ \E r \in InfoParkResponses :
         /\ calls' = Append(calls, Call("getParkById", <<args.parkCode>>, r))
         /\ IF r.threw
            THEN outcome' = ErrorOutcome /\ pc' = "done" /\ loc' = loc
            ELSE IF ~IsSome(r.val)
            THEN outcome' = NotFoundOutcome /\ pc' = "done" /\ loc' = loc
            ELSE /\ loc' = [loc EXCEPT !.park = r.val]
                 /\ pc' = "campgrounds"
                 /\ outcome' = outcome
    /\ UNCHANGED <<tool, args, suspended, heap>>

\* Get all campgrounds for this park and apply the pagination.
CampGetCampgrounds ==
    /\ tool = "getCampgrounds" /\ pc = "campgrounds"
    /\ \E r \in CampListResponses :
         /\ calls' = Append(calls, Call("getCampgroundsByPark", <<args.parkCode>>, r))
         /\ pc' = "done"
         /\ IF r.threw
            THEN outcome' = ErrorOutcome /\ loc' = loc
            ELSE LET totalCount == Len(r.val)
                     campgrounds == slice(r.val, args.start, args.start + args.limit)
                 IN  /\ loc' = [loc EXCEPT !.sliceStart = Some(args.start),
                                           !.sliceEnd = Some(args.start + args.limit)]
                     /\ outcome' =
                          IF Len(campgrounds) = 0 THEN [kind |-> "empty"]
                          ELSE [kind |-> "ok",
                                campgrounds |-> campgrounds,
                                totalCount |-> totalCount,
                                showing |-> IF totalCount > args.limit
                                            THEN Some(<<args.start + 1,
                                                        args.start + Len(campgrounds)>>)
                                            ELSE None]
    /\ UNCHANGED <<tool, args, suspended, heap>>

InitCamp ==
    /\ tool = "getCampgrounds"
    /\ args \in CampArgs
    /\ pc = "park"
    /\ loc = [park |-> None, sliceStart |-> None, sliceEnd |-> None]
    /\ calls = <<>>
    /\ heap = <<>>
    /\ suspended = <<>>
    /\ outcome = Pending

NextCamp == CampGetPark \/ CampGetCampgrounds

\* The two handlers that take limit and start.
SpecPaging ==
    (InitFindParks \/ InitCamp) /\ [][NextFindParks \/ NextCamp]_vars

\* The indices a finished request paginated with: those passed to the
\* provider query, or the bounds of the local slice.
PageIndices ==
    IF tool = "findParks"
    THEN IF calls[1].op = "getParksByActivity"
         THEN IF ~calls[1].res.threw /\ IsSome(calls[1].res.val)
              THEN {args.start,
                    Min(Len(Get(calls[1].res.val)), args.start + args.limit)}
              ELSE {}
         ELSE {calls[1].args[Len(calls[1].args) - 1],
               calls[1].args[Len(calls[1].args)]}
    ELSE IF IsSome(loc.sliceStart)
         THEN {Get(loc.sliceStart), Get(loc.sliceEnd)}
         ELSE {}

\* C27: whatever limit and start the caller passes to findParks or
\* getCampgrounds, the pagination indices used for the provider query or
\* the local slice are non-negative, and the default limit is at least 1.
C27_PaginationNonNegative ==
    /\ DefaultLimit >= 1
    /\ (tool \in {"findParks", "getCampgrounds"} /\ pc = "done")
       => \A n \in PageIndices : n >= 0

-----------------------------------------------------------------------------
(* getParkWeatherForecast                                                  *)

ParkForecastArgs == { [parkCode |-> sYose], [parkCode |-> sZzzz] }

\* Get park directly from service.
ForecastGetPark ==
    /\ tool = "getParkWeatherForecast" /\ pc = "park"
    /\ \E r \in InfoParkResponses :
         /\ calls' = Append(calls, Call("getParkById", <<args.parkCode>>, r))
         /\ IF r.threw
            THEN outcome' = ErrorOutcome /\ pc' = "done" /\ loc' = loc
            ELSE IF ~IsSome(r.val)
            THEN outcome' = NotFoundOutcome /\ pc' = "done" /\ loc' = loc
            ELSE /\ loc' = [loc EXCEPT !.park = r.val]
                 /\ pc' = "forecast"
                 /\ outcome' = outcome
    /\ UNCHANGED <<tool, args, suspended, heap>>

\* Get weather forecast using the service.
ForecastGetForecast ==
    /\ tool = "getParkWeatherForecast" /\ pc = "forecast"
    /\ \E r \in ForecastResponses :
         /\ calls' = Append(calls,
                Call("get7DayForecastByLocation", <<Get(loc.park).name>>, r))
         /\ pc' = "done"
         /\ outcome' =
              IF r.threw THEN ErrorOutcome
              ELSE IF ~IsSome(r.val) \/ Len(Get(r.val)) = 0
              THEN [kind |-> "noForecast"]
              ELSE [kind |-> "ok", forecast |-> Get(r.val)]
    /\ UNCHANGED <<tool, args, suspended, loc, heap>>

InitParkForecast ==
    /\ tool = "getParkWeatherForecast"
    /\ args \in ParkForecastArgs
    /\ pc = "park"
    /\ loc = [park |-> None]
    /\ calls = <<>>
    /\ heap = <<>>
    /\ suspended = <<>>
    /\ outcome = Pending

NextParkForecast == ForecastGetPark \/ ForecastGetForecast

\* The four handlers that start by looking the park up.
SpecLookup ==
    /\ InitInfo \/ InitPlan \/ InitCamp \/ InitParkForecast
    /\ [][NextInfo \/ NextPlan \/ NextCamp \/ NextParkForecast]_vars

LookupTools ==
    {"getParkInfo", "planParkVisit", "getCampgrounds", "getParkWeatherForecast"}

\* C28: in getParkInfo, planParkVisit, getCampgrounds and
\* getParkWeatherForecast the park lookup by code is the first provider
\* call, and when it returns no park the handler returns the not-found
\* message and issues no other call.
C28_LookupFirst ==
    (tool \in LookupTools /\ calls /= <<>>)
    => /\ calls[1].op = "getParkById"
       /\ calls[1].args = <<args.parkCode>>
       /\ (~calls[1].res.threw /\ ~IsSome(calls[1].res.val))
          => /\ pc = "done"
             /\ outcome = NotFoundOutcome
             /\ Len(calls) = 1

\* C28 witness: getCampgrounds for a code the lookup does not know has
\* returned not-found after the lookup alone.
C28_Witness ==
    /\ tool = "getCampgrounds" /\ pc = "done"
    /\ calls = <<Call("getParkById", <<args.parkCode>>, Ok(None))>>
    /\ outcome = NotFoundOutcome

-----------------------------------------------------------------------------
(* Two requests in flight                                                  *)
(*                                                                         *)
(* The server runs the handlers on one thread: a handler runs from one     *)
(* await to the next, and while it is suspended another request's handler  *)
(* may run.  The state variables above are those of the running request;   *)
(* suspended holds what the other request keeps while it waits: its        *)
(* arguments and locals, the calls it has issued and its result.  No       *)
(* handler reads or writes a variable declared outside its own body.       *)

Context(t, a, p, l, c, o) ==
    [tool |-> t, args |-> a, pc |-> p, loc |-> l, calls |-> c, outcome |-> o]

ConcRecArgs ==
    { [location |-> sMoab, distance |-> DefaultDistance,
       activityType |-> a, includeTrails |-> t] :
      a \in {None, Some(sHik)}, t \in BOOLEAN }

ConcFindArgs ==
    { [q |-> None, stateCode |-> None, activity |-> Some(sHiking),
       limit |-> 2, start |-> 1],
      [q |-> Some(sYosemite), stateCode |-> None, activity |-> None,
       limit |-> DefaultLimit, start |-> DefaultStart] }

ConcRequests ==
    { Context("findNearbyRecreation", a, "geocode", RecLoc, <<>>, Pending) :
      a \in ConcRecArgs }
    \cup { Context("findParks", a, "query", <<>>, <<>>, Pending) :
           a \in ConcFindArgs }

\* The provider answers tried when two requests are in flight.
ConcAnswers(op) ==
    CASE op = "getCoordinates" ->
           { Throw, Ok(None),
             Ok(Some(<<Some(Candidate(Some(s38), Some(sM109), sMoab)),
                       Some(Candidate(Some(s95), Some(sM181), sMonument))>>)) }
      [] op = "getFacilitiesByLocation" -> { Throw, Ok(<<>>), Ok(<<F1, F2, F3>>) }
      [] op = "searchParksByLocation" -> { Throw, Ok(<<>>), Ok(<<P1>>), Ok(<<P3, P1, P2>>) }
      [] op = "getTrailsByPark" -> { Throw, Ok(<<>>), Ok(<<T1, T2>>) }
      [] op = "get7DayForecastByLocation" -> ForecastResponses
      [] OTHER -> { Throw, Ok(Some(<<>>)), Ok(Some(ParkList(2))), Ok(Some(ParkList(3))) }

\* The call just returned is one of the answers tried.
Considered ==
    LET call == calls'[Len(calls')]
    IN  call.res \in ConcAnswers(call.op)

\* Mutant of Switch: the trail accumulator is a variable of the module,
\* shared by the requests, and not a local of the handler.
Switch_SharedTrails ==
    /\ Len(suspended) = 1
    /\ LET next == suspended[1]
       IN  /\ tool' = next.tool
           /\ args' = next.args
           /\ pc' = next.pc
           /\ loc' = IF tool = "findNearbyRecreation" /\ next.tool = tool
                     THEN [next.loc EXCEPT !.trails = loc.trails]
                     ELSE next.loc
           /\ calls' = next.calls
           /\ outcome' = next.outcome
           /\ suspended' = <<Context(tool, args, pc, loc, calls, outcome)>>
    /\ UNCHANGED heap

\* The running handler is suspended at an await (or has returned) and the
\* other request's handler runs.
Switch ==
    /\ Len(suspended) = 1
    /\ LET next == suspended[1]
       IN  /\ tool' = next.tool
           /\ args' = next.args
           /\ pc' = next.pc
           /\ loc' = next.loc
           /\ calls' = next.calls
           /\ outcome' = next.outcome
           /\ suspended' = <<Context(tool, args, pc, loc, calls, outcome)>>
    /\ UNCHANGED heap

InitConcurrent ==
    \E first \in ConcRequests, second \in ConcRequests :
        /\ tool = first.tool
        /\ args = first.args
        /\ pc = first.pc
        /\ loc = first.loc
        /\ calls = first.calls
        /\ outcome = first.outcome
        /\ heap = <<>>
        /\ suspended = <<second>>

NextConcurrent ==
    \/ RecGeocode /\ Considered
    \/ RecFacilities /\ Considered
    \/ RecParks /\ Considered
    \/ RecTrails /\ Considered
    \/ RecWeather /\ Considered
    \/ FindQuery /\ Considered
    \/ Switch

SpecConcurrent == InitConcurrent /\ [][NextConcurrent]_vars

\* findNearbyRecreation run alone: the handler's state after the answer r to
\* the call it is waiting for, from its state st.
RecStep(st, r) ==
    LET l == st.loc
        issued(op, a) == [st EXCEPT !.calls = Append(@, Call(op, a, r))]
        failed(s) == [s EXCEPT !.pc = "done", !.outcome = ErrorOutcome]
    IN  CASE st.pc = "geocode" ->
               LET s1 == issued("getCoordinates", <<args.location>>)
                   settled == getCoordinates(r)
               IN  IF settled.threw THEN failed(s1)
                   ELSE IF ~IsSome(settled.val)
                   THEN [s1 EXCEPT !.pc = "done", !.outcome = NotFoundOutcome]
                   ELSE [s1 EXCEPT !.pc = "facilities",
                                   !.loc = [l EXCEPT !.coordinates = settled.val]]
          [] st.pc = "facilities" ->
               LET c == Get(l.coordinates)
                   s1 == issued("getFacilitiesByLocation",
                                <<c.latitude, c.longitude, adjustedDistance(args.distance)>>)
               IN  IF r.threw THEN failed(s1)
                   ELSE [s1 EXCEPT !.pc = "parks",
                                   !.loc = [l EXCEPT !.facilities = r.val]]
          [] st.pc = "parks" ->
               LET c == Get(l.coordinates)
                   s1 == issued("searchParksByLocation",
                                <<c.latitude, c.longitude, NearbyParkCount>>)
                   first == NextTrailIdx(r.val, 1)
                   l1 == [l EXCEPT !.nearbyParks = r.val]
               IN  IF r.threw THEN failed(s1)
                   ELSE IF args.includeTrails /\ first <= Len(r.val)
                   THEN [s1 EXCEPT !.pc = "trails", !.loc = [l1 EXCEPT !.i = first]]
                   ELSE [s1 EXCEPT !.pc = "weather", !.loc = RecFilter(l1)]
          [] st.pc = "trails" ->
               LET s1 == issued("getTrailsByPark", <<l.nearbyParks[l.i].parkCode>>)
                   next == NextTrailIdx(l.nearbyParks, l.i + 1)
                   l1 == [l EXCEPT !.trails = l.trails \o r.val]
               IN  IF r.threw THEN failed(s1)
                   ELSE IF next <= Len(l.nearbyParks)
                   THEN [s1 EXCEPT !.pc = "trails", !.loc = [l1 EXCEPT !.i = next]]
                   ELSE [s1 EXCEPT !.pc = "weather", !.loc = RecFilter(l1)]
          [] st.pc = "weather" ->
               LET s1 == issued("get7DayForecastByLocation", <<args.location>>)
               IN  IF r.threw THEN failed(s1)
                   ELSE [s1 EXCEPT !.pc = "done", !.outcome = RecResponse(l, r.val)]

\* findParks run alone.
FindStep(st, r) ==
    LET op == findParksQuery(args.q, args.stateCode, args.activity)
    IN  [st EXCEPT !.calls = Append(@, Call(op, FindCallArgs(op), r)),
                   !.pc = "done",
                   !.outcome = FindOutcome(op, r)]

RECURSIVE RunAlone(_, _, _)
\* The request run alone against the answers rs, from its k-th call on: it
\* stops when it has returned, whatever answers are left.
RunAlone(st, rs, k) ==
    IF k > Len(rs) \/ st.pc = "done" THEN st
    ELSE RunAlone(IF st.tool = "findParks" THEN FindStep(st, rs[k])
                  ELSE RecStep(st, rs[k]),
                  rs, k + 1)

\* The running request at its entry.
Entry ==
    IF tool = "findParks"
    THEN Context(tool, args, "query", <<>>, <<>>, Pending)
    ELSE Context(tool, args, "geocode", RecLoc, <<>>, Pending)

\* The answers the running request has received so far.
Answers == [k \in 1..Len(calls) |-> calls[k].res]

\* C25: requests share no mutable state. Whatever the interleaving of two
\* requests at their awaits, each request issues the calls and reaches the
\* state and the result it reaches when run alone against the same answers.
C25_AsIfAlone ==
    RunAlone(Entry, Answers, 1) = Context(tool, args, pc, loc, calls, outcome)

\* C25 witness: two findNearbyRecreation requests whose trail queries were
\* interleaved have both returned a result, each with the trails of its own
\* queries.
C25_Witness ==
    /\ tool = "findNearbyRecreation" /\ pc = "done" /\ outcome.kind = "ok"
    /\ suspended[1].tool = tool /\ suspended[1].pc = "done"
    /\ suspended[1].outcome.kind = "ok"
    /\ Len(loc.trails) = 2
    /\ Len(suspended[1].loc.trails) = 4
    /\ Len(CallsOf("getTrailsByPark")) = 1

----------------------------------------------------------------------------
(* All the handlers                                                        *)

Init ==
    \/ InitRecreation \/ InitFindParks \/ InitPark \/ InitCoords \/ InitWindows
    \/ InitConcurrent \/ InitCamp \/ InitParkForecast
Next ==
    \/ NextRecreation \/ NextFindParks \/ NextPark \/ NextCoords \/ NextWindows
    \/ NextConcurrent \/ NextCamp \/ NextParkForecast
Spec == Init /\ [][Next]_vars

====
